---- MODULE Spec2Model ----
(***************************************************************************)
(* Job-operation lifecycle engine of the job work planner backend          *)
(* (task-4-backend-skeleton/app): the in-memory tables of db/mock_db.py    *)
(* and routes/jobs.py, and the service functions of                        *)
(* core/job_operations_service.py that read and write them.                *)
(*                                                                         *)
(* A Python dict is a function whose DOMAIN is its set of keys.  A dict    *)
(* key that is absent, or present with the value None, is the value None   *)
(* (the code reads such keys with .get()).  Timestamps are readings of a   *)
(* clock that never goes back (now); dates are day numbers.                *)
(***************************************************************************)
EXTENDS Integers, Sequences, FiniteSets, TLC

\* ------------------------------------------------------------------
\* Bounds of the model
\* ------------------------------------------------------------------
MaxQty == 2
MaxDate == 2
MaxConflicts == 1
MaxRouteLen == 2
MaxNotifications == 2

\* ------------------------------------------------------------------
\* Values
\* ------------------------------------------------------------------
\* Python None in a string-valued field / in an integer-valued field.
None == "None"
NoneInt == -100
\* A date string datetime.fromisoformat() rejects.
BadDate == -1

OP_STATUS_NOT_STARTED == "NOT_STARTED"
OP_STATUS_READY == "READY"
OP_STATUS_IN_PROGRESS == "IN_PROGRESS"
OP_STATUS_PAUSED == "PAUSED"
OP_STATUS_COMPLETED == "COMPLETED"
OP_STATUS_CANCELLED == "CANCELLED"

OpStatuses ==
    {OP_STATUS_NOT_STARTED, OP_STATUS_READY, OP_STATUS_IN_PROGRESS,
     OP_STATUS_PAUSED, OP_STATUS_COMPLETED, OP_STATUS_CANCELLED}

\* Result of a call that returned normally; every other result is the
\* message of the exception the call raised.
OK == "OK"
ERR_NOT_FOUND == "Job operation not found"
ERR_UNAUTHORIZED == "Unauthorized access to job operation"
ERR_INVALID_TRANSITION == "Invalid status transition"
ERR_PLANNING_REQUIRED == "Cannot start operation: Machine not assigned (Planning required)"
ERR_SEQUENCE == "Previous operation must be COMPLETED first"
ERR_QC_REQUIRED == "quantity_completed is required when completing an operation"
ERR_QC_NEGATIVE == "quantity_completed cannot be negative"
ERR_QR_NEGATIVE == "quantity_rejected cannot be negative"
ERR_PARENT_JOB == "Parent job not found"
ERR_QC_EXCEEDS == "quantity_completed exceeds total job quantity"
ERR_TOTAL_EXCEEDS == "Total produced + rejected exceeds job quantity"
ERR_REWORK_NOTE == "rework_note is required when rework_flag is true"
ERR_OP_COMPLETED == "Cannot record production. Operation already COMPLETED"
ERR_NEGATIVE_QTY == "Quantities cannot be negative"
ERR_EMPTY_ENTRY == "At least one quantity must be greater than zero"
ERR_EXCEEDS_JOB_QTY == "Production exceeds job quantity"

\* ------------------------------------------------------------------
\* Master data (db/mock_db.py)
\* ------------------------------------------------------------------
MACHINES_TABLE ==
    [m \in {"machine-1", "machine-2"} |-> [machine_id |-> m, tenant_id |-> "tenant-1"]]

SHIFTS_TABLE ==
    [s \in {"shift-A", "shift-B"} |-> [shift_id |-> s, tenant_id |-> "tenant-1"]]

DEFAULT_PARTS_TABLE ==
    [p \in {"part-1"} |->
        [part_id |-> p, tenant_id |-> "tenant-1",
         default_operations_route |-> <<"op-cut", "op-drill", "op-paint">>]]

OPERATIONS_TABLE ==
    [o \in {"op-cut", "op-drill", "op-paint"} |-> [operation_id |-> o]]

\* ------------------------------------------------------------------
\* Inputs of the calls
\* ------------------------------------------------------------------
JobIds == {"job-1"}
TenantIds == {"tenant-1", "tenant-2"}
PartIds == {"part-1", "part-9"}
\* f"{job_id}-{op_id}": one id per (job id, operation type) pair.
JobOperationId(job_id, op_id) == <<job_id, op_id>>
JobOperationIds == JobIds \X {"op-cut", "op-drill", "op-paint", "op-weld"}

VARIABLES
    PARTS_TABLE,                     \* db/mock_db.py PARTS_TABLE
    JOBS_TABLE,                      \* db/mock_db.py JOBS_TABLE
    ROUTES_JOBS_TABLE,               \* routes/jobs.py JOBS_TABLE
    JOB_OPERATIONS_TABLE,            \* db/mock_db.py JOB_OPERATIONS_TABLE
    JOB_OPERATION_PRODUCTION_TABLE,  \* db/mock_db.py JOB_OPERATION_PRODUCTION_TABLE
    NOTIFICATIONS_TABLE,             \* core/notification_service.py NOTIFICATIONS_TABLE
    now,                             \* datetime.utcnow()
    outcome,                         \* the last call and what it returned or raised
    threads                          \* the calls in progress in the worker threads

vars ==
    <<PARTS_TABLE, JOBS_TABLE, ROUTES_JOBS_TABLE, JOB_OPERATIONS_TABLE,
      JOB_OPERATION_PRODUCTION_TABLE, NOTIFICATIONS_TABLE, now, outcome, threads>>

tables ==
    <<PARTS_TABLE, JOBS_TABLE, ROUTES_JOBS_TABLE, JOB_OPERATIONS_TABLE,
      JOB_OPERATION_PRODUCTION_TABLE, NOTIFICATIONS_TABLE>>

EmptyDict == [k \in {} |-> None]

\* The report of a call to its caller: the function called, the job
\* operation (or job) it was called on, and the result.  Between calls no
\* report is pending.  A read records the clock reading it was made at, a
\* production entry the dict it returns.
Outcome(call, id, result) ==
    [call |-> call, id |-> id, result |-> result, clashes |-> {}, audit |-> <<>>,
     at |-> NoneInt, returned |-> <<>>]

Idle == Outcome("idle", <<>>, "OK")

\* The threads of the server's worker pool: a route handler that is a plain
\* def runs in one of them, so two requests can be served at the same time.
Threads == {"thread-1", "thread-2"}

\* A thread that serves no request.
Waiting ==
    [pc |-> "waiting", call |-> "none", id |-> <<>>, args |-> <<>>, result |-> "OK",
     audit |-> <<>>, locals |-> <<>>]

\* Every thread waits: the calls are served one at a time.
NoCalls == [t \in Threads |-> Waiting]

Init ==
    /\ PARTS_TABLE = DEFAULT_PARTS_TABLE
    /\ JOBS_TABLE = EmptyDict
    /\ ROUTES_JOBS_TABLE = EmptyDict
    /\ JOB_OPERATIONS_TABLE = EmptyDict
    /\ JOB_OPERATION_PRODUCTION_TABLE = EmptyDict
    /\ NOTIFICATIONS_TABLE = <<>>
    /\ now = 0
    /\ outcome = Idle
    /\ threads = NoCalls

\* dict[key] = value
Put(dict, key, value) == (key :> value) @@ dict

\* The handler returns or raises to its caller; the next call can be served.
Return ==
    /\ outcome # Idle
    /\ outcome' = Idle
    /\ UNCHANGED <<tables, now, threads>>


\* ------------------------------------------------------------------
\* Route generation
\* ------------------------------------------------------------------
ERR_PART_MISSING == "Part does not exist"
ERR_PART_TENANT == "Part does not belong to tenant"
ERR_NO_ROUTE == "Part has no operation route defined"
ERR_ROUTE_OPERATION == "Invalid operation in route"
ERR_QUANTITY == "Quantity must be > 0"
ERR_INVALID_PART == "Invalid part"

\* validate_part_route: OK when it returns the route, else the message.
validate_part_route(parts, part_id, tenant_id) ==
    IF part_id \notin DOMAIN parts THEN ERR_PART_MISSING
    ELSE IF parts[part_id].tenant_id # tenant_id THEN ERR_PART_TENANT
    ELSE IF parts[part_id].default_operations_route = <<>> THEN ERR_NO_ROUTE
    ELSE IF \E i \in DOMAIN parts[part_id].default_operations_route :
                parts[part_id].default_operations_route[i]
                    \notin DOMAIN OPERATIONS_TABLE
         THEN ERR_ROUTE_OPERATION
    ELSE OK

\* The dict create_job_operations builds for route entry number index
\* (0-based).  The keys it does not set are absent, that is None.
NewJobOperation(job_id, tenant_id, op_id, index) ==
    [job_operation_id   |-> JobOperationId(job_id, op_id),
     job_id             |-> job_id,
     tenant_id          |-> tenant_id,
     operation_id       |-> op_id,
     sequence_number    |-> index + 1,
     status             |-> IF index = 0 THEN OP_STATUS_READY
                            ELSE OP_STATUS_NOT_STARTED,
     machine_id         |-> None,
     shift_id           |-> None,
     planned_start_date |-> NoneInt,
     planned_end_date   |-> NoneInt,
     needs_planning     |-> FALSE,
     updated_at         |-> NoneInt,
     actual_start_time  |-> NoneInt,
     quantity_completed |-> NoneInt,
     quantity_rejected  |-> NoneInt,
     total_produced     |-> NoneInt,
     total_scrap        |-> NoneInt,
     total_rework       |-> NoneInt]

\* The loop of create_job_operations from route entry index on.
RECURSIVE CreateRoute(_, _, _, _, _)
CreateRoute(table, job_id, tenant_id, route, index) ==
    IF index >= Len(route) THEN table
    ELSE CreateRoute(
            Put(table, JobOperationId(job_id, route[index + 1]),
                NewJobOperation(job_id, tenant_id, route[index + 1], index)),
            job_id, tenant_id, route, index + 1)

\* JOB_OPERATIONS_TABLE after create_job_operations(job_id, part_id, tenant_id).
create_job_operations_table(parts, table, job_id, part_id, tenant_id) ==
    IF validate_part_route(parts, part_id, tenant_id) # OK THEN table
    ELSE CreateRoute(table, job_id, tenant_id,
                     parts[part_id].default_operations_route, 0)

\* job ids are uuid4 values: a new job's id is used nowhere yet.
FreshJobId(job_id) ==
    /\ job_id \notin DOMAIN JOBS_TABLE
    /\ job_id \notin DOMAIN ROUTES_JOBS_TABLE
    /\ \A id \in DOMAIN JOB_OPERATIONS_TABLE :
          JOB_OPERATIONS_TABLE[id].job_id # job_id

JobHeader(job_id, tenant_id, quantity) ==
    [job_id |-> job_id, tenant_id |-> tenant_id, quantity |-> quantity,
     due_date |-> 1, priority |-> "MEDIUM",
     status |-> "NOT_STARTED", updated_at |-> now]

\* A job header enters db/mock_db.py JOBS_TABLE, the table the service
\* functions read.  Headers are stored before the job's route is generated.
put_job(job_id, tenant_id, quantity) ==
    /\ outcome = Idle
    /\ FreshJobId(job_id)
    /\ quantity > 0
    /\ JOBS_TABLE' = Put(JOBS_TABLE, job_id, JobHeader(job_id, tenant_id, quantity))
    /\ outcome' = Outcome("put_job", <<job_id>>, OK)
    /\ UNCHANGED <<PARTS_TABLE, ROUTES_JOBS_TABLE, JOB_OPERATIONS_TABLE,
                   JOB_OPERATION_PRODUCTION_TABLE, NOTIFICATIONS_TABLE, now, threads>>

\* create_job_operations called for a job that has no operations yet.
create_job_operations(job_id, part_id, tenant_id) ==
    /\ outcome = Idle
    /\ job_id \notin DOMAIN ROUTES_JOBS_TABLE
    /\ \A id \in DOMAIN JOB_OPERATIONS_TABLE :
          JOB_OPERATIONS_TABLE[id].job_id # job_id
    /\ JOB_OPERATIONS_TABLE' =
          create_job_operations_table(PARTS_TABLE, JOB_OPERATIONS_TABLE, job_id,
                                      part_id, tenant_id)
    /\ outcome' = Outcome("create_job_operations", <<job_id>>,
                          validate_part_route(PARTS_TABLE, part_id, tenant_id))
    /\ UNCHANGED <<PARTS_TABLE, JOBS_TABLE, ROUTES_JOBS_TABLE,
                   JOB_OPERATION_PRODUCTION_TABLE, NOTIFICATIONS_TABLE, now, threads>>

\* created_operation_ids: the list create_job_operations returns.
created_operation_ids(job_id, route) ==
    [i \in 1..Len(route) |-> JobOperationId(job_id, route[i])]

\* dict.pop(key, None)
Pop(dict, key) == [k \in DOMAIN dict \ {key} |-> dict[k]]

\* A rollback that removes nothing.
Rollback_nothing(table, ids) ==
    table

\* The except branch of create_job_operations: every id created so far is
\* popped from the table.
RECURSIVE Rollback(_, _)
Rollback(table, ids) ==
    IF ids = <<>> THEN table
    ELSE Rollback(Pop(table, Head(ids)), Tail(ids))

ERR_INTERRUPTED == "Exception"

\* create_job_operations in which an exception is raised inside the try
\* block once fail_at operations of the route have been stored: the loop
\* has run for the first fail_at route entries, then the except branch runs.
create_job_operations_interrupted(job_id, part_id, tenant_id, fail_at) ==
    /\ outcome = Idle
    /\ job_id \notin DOMAIN ROUTES_JOBS_TABLE
    /\ \A id \in DOMAIN JOB_OPERATIONS_TABLE :
          JOB_OPERATIONS_TABLE[id].job_id # job_id
    /\ validate_part_route(PARTS_TABLE, part_id, tenant_id) = OK
    /\ fail_at <= Len(PARTS_TABLE[part_id].default_operations_route)
    /\ LET created == SubSeq(PARTS_TABLE[part_id].default_operations_route, 1, fail_at)
       IN JOB_OPERATIONS_TABLE' =
             Rollback(CreateRoute(JOB_OPERATIONS_TABLE, job_id, tenant_id, created, 0),
                      created_operation_ids(job_id, created))
    /\ outcome' = Outcome("create_job_operations", <<job_id>>, ERR_INTERRUPTED)
    /\ UNCHANGED <<PARTS_TABLE, JOBS_TABLE, ROUTES_JOBS_TABLE,
                   JOB_OPERATION_PRODUCTION_TABLE, NOTIFICATIONS_TABLE, now, threads>>

MOCK_PARTS == [p \in {"part-1"} |-> [tenant_id |-> "tenant-1"]]

\* create_job's result: its own validations, then route generation.
create_job_result(parts, part_id, tenant_id, quantity) ==
    IF quantity <= 0 THEN ERR_QUANTITY
    ELSE IF part_id \notin DOMAIN MOCK_PARTS
            \/ MOCK_PARTS[part_id].tenant_id # tenant_id THEN ERR_INVALID_PART
    ELSE validate_part_route(parts, part_id, tenant_id)

\* create_job's own validations pass: the header is stored and route
\* generation is called.
header_stored(part_id, tenant_id, quantity) ==
    /\ quantity > 0
    /\ part_id \in DOMAIN MOCK_PARTS
    /\ MOCK_PARTS[part_id].tenant_id = tenant_id

\* An except branch that leaves the header in the table.
rollback_header_kept(jobs, job_id) ==
    jobs

\* The except branch of create_job: JOBS_TABLE.pop(job_id, None).
rollback_header(jobs, job_id) ==
    Pop(jobs, job_id)

\* POST /jobs: the header goes to routes/jobs.py JOBS_TABLE, the operations
\* to JOB_OPERATIONS_TABLE; the header is popped when route generation raises.
create_job(job_id, part_id, tenant_id, quantity) ==
    /\ outcome = Idle
    /\ FreshJobId(job_id)
    /\ ROUTES_JOBS_TABLE' =
          IF create_job_result(PARTS_TABLE, part_id, tenant_id, quantity) = OK
          THEN Put(ROUTES_JOBS_TABLE, job_id, JobHeader(job_id, tenant_id, quantity))
          ELSE IF header_stored(part_id, tenant_id, quantity)
          THEN rollback_header(Put(ROUTES_JOBS_TABLE, job_id,
                                   JobHeader(job_id, tenant_id, quantity)), job_id)
          ELSE ROUTES_JOBS_TABLE
    /\ JOB_OPERATIONS_TABLE' =
          IF create_job_result(PARTS_TABLE, part_id, tenant_id, quantity) = OK
          THEN create_job_operations_table(PARTS_TABLE, JOB_OPERATIONS_TABLE, job_id,
                                      part_id, tenant_id)
          ELSE JOB_OPERATIONS_TABLE
    /\ outcome' = Outcome("create_job", <<job_id>>,
                          create_job_result(PARTS_TABLE, part_id, tenant_id, quantity))
    /\ UNCHANGED <<PARTS_TABLE, JOBS_TABLE, JOB_OPERATION_PRODUCTION_TABLE,
                   NOTIFICATIONS_TABLE, now, threads>>

\* POST /jobs in which route generation raises once fail_at operations of
\* the route have been stored: create_job_operations pops them and raises
\* again, and create_job pops the header.
create_job_interrupted(job_id, part_id, tenant_id, quantity, fail_at) ==
    /\ outcome = Idle
    /\ FreshJobId(job_id)
    /\ \A id \in DOMAIN JOB_OPERATIONS_TABLE :
          JOB_OPERATIONS_TABLE[id].job_id # job_id
    /\ create_job_result(PARTS_TABLE, part_id, tenant_id, quantity) = OK
    /\ fail_at <= Len(PARTS_TABLE[part_id].default_operations_route)
    /\ ROUTES_JOBS_TABLE' =
          rollback_header(Put(ROUTES_JOBS_TABLE, job_id,
                              JobHeader(job_id, tenant_id, quantity)), job_id)
    /\ LET created == SubSeq(PARTS_TABLE[part_id].default_operations_route, 1, fail_at)
       IN JOB_OPERATIONS_TABLE' =
             Rollback(CreateRoute(JOB_OPERATIONS_TABLE, job_id, tenant_id, created, 0),
                      created_operation_ids(job_id, created))
    /\ outcome' = Outcome("create_job", <<job_id>>, ERR_INTERRUPTED)
    /\ UNCHANGED <<PARTS_TABLE, JOBS_TABLE, JOB_OPERATION_PRODUCTION_TABLE,
                   NOTIFICATIONS_TABLE, now, threads>>

\* ------------------------------------------------------------------
\* Execution state machine
\* ------------------------------------------------------------------
\* A tenant check that lets every caller through.
tenant_mismatch_never(job_op, tenant_id) ==
    FALSE

\* job_op.get("tenant_id") != tenant_id
tenant_mismatch(job_op, tenant_id) ==
    job_op.tenant_id # tenant_id

\* The record log_audit_event appends to AUDIT_LOGS_TABLE.
AuditRecord(tenant_id, entity_id, action, before, after) ==
    [tenant_id |-> tenant_id, entity_type |-> "JOB_OPERATION", entity_id |-> entity_id,
     action |-> action, before |-> before, after |-> after]

ALLOWED_STATUS_TRANSITIONS ==
    [s \in OpStatuses |->
        CASE s = OP_STATUS_NOT_STARTED -> {OP_STATUS_IN_PROGRESS, OP_STATUS_CANCELLED}
          [] s = OP_STATUS_READY       -> {OP_STATUS_IN_PROGRESS}
          [] s = OP_STATUS_IN_PROGRESS -> {OP_STATUS_COMPLETED, OP_STATUS_PAUSED}
          [] s = OP_STATUS_PAUSED      -> {OP_STATUS_IN_PROGRESS}
          [] s = OP_STATUS_COMPLETED   -> {}
          [] s = OP_STATUS_CANCELLED   -> {}]

\* A transition check that also lets a PAUSED operation be completed.
is_valid_status_transition_paused_completes(current_status, new_status) ==
    /\ current_status \in DOMAIN ALLOWED_STATUS_TRANSITIONS
    /\ \/ new_status \in ALLOWED_STATUS_TRANSITIONS[current_status]
       \/ current_status = OP_STATUS_PAUSED /\ new_status = OP_STATUS_COMPLETED

\* A transition check under which only a READY operation can be started.
is_valid_status_transition_from_ready_only(current_status, new_status) ==
    /\ current_status \in DOMAIN ALLOWED_STATUS_TRANSITIONS
    /\ new_status \in ALLOWED_STATUS_TRANSITIONS[current_status]
    /\ ~(current_status = OP_STATUS_NOT_STARTED /\ new_status = OP_STATUS_IN_PROGRESS)

is_valid_status_transition(current_status, new_status) ==
    /\ current_status \in DOMAIN ALLOWED_STATUS_TRANSITIONS
    /\ new_status \in ALLOWED_STATUS_TRANSITIONS[current_status]

\* A planning prerequisite applied to the start of a NOT_STARTED operation
\* only.
planning_missing_not_started_only(job_op, new_status) ==
    /\ new_status = OP_STATUS_IN_PROGRESS
    /\ job_op.status = OP_STATUS_NOT_STARTED
    /\ job_op.machine_id = None

\* Step 3: a start that is not a resume needs a machine.
planning_missing(job_op, new_status) ==
    /\ new_status = OP_STATUS_IN_PROGRESS
    /\ job_op.status # OP_STATUS_PAUSED
    /\ job_op.machine_id = None

\* prev_ops of step 4: the operations of the same job with the preceding
\* sequence number.
prev_ops(table, job_op) ==
    {id \in DOMAIN table :
        /\ table[id].job_id = job_op.job_id
        /\ table[id].sequence_number = job_op.sequence_number - 1}

\* A sequence check applied to fresh starts only, not to a resume.
sequence_violation_fresh_start_only(table, job_op, new_status, override_sequence) ==
    /\ new_status = OP_STATUS_IN_PROGRESS
    /\ job_op.status # OP_STATUS_PAUSED
    /\ ~override_sequence
    /\ job_op.sequence_number > 1
    /\ \/ prev_ops(table, job_op) = {}
       \/ \E id \in prev_ops(table, job_op) : table[id].status # OP_STATUS_COMPLETED

\* A sequence check satisfied as soon as the predecessor has been started.
sequence_violation_predecessor_started(table, job_op, new_status, override_sequence) ==
    /\ new_status = OP_STATUS_IN_PROGRESS
    /\ ~override_sequence
    /\ job_op.sequence_number > 1
    /\ \/ prev_ops(table, job_op) = {}
       \/ \E id \in prev_ops(table, job_op) :
             table[id].status \in {OP_STATUS_NOT_STARTED, OP_STATUS_READY}

\* Step 4: the sequence check raises.
sequence_violation(table, job_op, new_status, override_sequence) ==
    /\ new_status = OP_STATUS_IN_PROGRESS
    /\ ~override_sequence
    /\ job_op.sequence_number > 1
    /\ \/ prev_ops(table, job_op) = {}
       \/ \E id \in prev_ops(table, job_op) : table[id].status # OP_STATUS_COMPLETED

\* quantity_rejected or 0
rejected_or_zero(quantity_rejected) ==
    IF quantity_rejected = NoneInt THEN 0 ELSE quantity_rejected

\* The completion checks without the bound on completed plus rejected.
completion_error_total_unchecked(jobs, job_op, quantity_completed, quantity_rejected, rework_flag, rework_note) ==
    IF quantity_completed = NoneInt THEN ERR_QC_REQUIRED
    ELSE IF quantity_completed < 0 THEN ERR_QC_NEGATIVE
    ELSE IF rejected_or_zero(quantity_rejected) < 0 THEN ERR_QR_NEGATIVE
    ELSE IF job_op.job_id \notin DOMAIN jobs THEN ERR_PARENT_JOB
    ELSE IF quantity_completed > jobs[job_op.job_id].quantity THEN ERR_QC_EXCEEDS
    ELSE IF rework_flag /\ rework_note = None THEN ERR_REWORK_NOTE
    ELSE OK

\* Step 5: the checks made when completing; OK when none raises.
completion_error(jobs, job_op, quantity_completed, quantity_rejected, rework_flag, rework_note) ==
    IF quantity_completed = NoneInt THEN ERR_QC_REQUIRED
    ELSE IF quantity_completed < 0 THEN ERR_QC_NEGATIVE
    ELSE IF rejected_or_zero(quantity_rejected) < 0 THEN ERR_QR_NEGATIVE
    ELSE IF job_op.job_id \notin DOMAIN jobs THEN ERR_PARENT_JOB
    ELSE IF quantity_completed > jobs[job_op.job_id].quantity THEN ERR_QC_EXCEEDS
    ELSE IF quantity_completed + rejected_or_zero(quantity_rejected)
                > jobs[job_op.job_id].quantity THEN ERR_TOTAL_EXCEEDS
    ELSE IF rework_flag /\ rework_note = None THEN ERR_REWORK_NOTE
    ELSE OK

\* The steps with the sequence check made before the planning check.
update_status_result_sequence_first(jobs, table, job_operation_id, new_status, tenant_id, quantity_completed, quantity_rejected, rework_flag, rework_note, override_sequence) ==
    IF job_operation_id \notin DOMAIN table THEN ERR_NOT_FOUND
    ELSE IF tenant_mismatch(table[job_operation_id], tenant_id) THEN ERR_UNAUTHORIZED
    ELSE IF ~is_valid_status_transition(table[job_operation_id].status, new_status)
         THEN ERR_INVALID_TRANSITION
    ELSE IF sequence_violation(table, table[job_operation_id], new_status,
                               override_sequence)
         THEN ERR_SEQUENCE
    ELSE IF planning_missing(table[job_operation_id], new_status)
         THEN ERR_PLANNING_REQUIRED
    ELSE IF new_status = OP_STATUS_COMPLETED
         THEN completion_error(jobs, table[job_operation_id], quantity_completed,
                               quantity_rejected, rework_flag, rework_note)
    ELSE OK

\* Steps 1-5 of update_job_operation_status: OK, or the message raised.
update_status_result(jobs, table, job_operation_id, new_status, tenant_id, quantity_completed, quantity_rejected, rework_flag, rework_note, override_sequence) ==
    IF job_operation_id \notin DOMAIN table THEN ERR_NOT_FOUND
    ELSE IF tenant_mismatch(table[job_operation_id], tenant_id) THEN ERR_UNAUTHORIZED
    ELSE IF ~is_valid_status_transition(table[job_operation_id].status, new_status)
         THEN ERR_INVALID_TRANSITION
    ELSE IF planning_missing(table[job_operation_id], new_status)
         THEN ERR_PLANNING_REQUIRED
    ELSE IF sequence_violation(table, table[job_operation_id], new_status,
                               override_sequence)
         THEN ERR_SEQUENCE
    ELSE IF new_status = OP_STATUS_COMPLETED
         THEN completion_error(jobs, table[job_operation_id], quantity_completed,
                               quantity_rejected, rework_flag, rework_note)
    ELSE OK

\* Steps 6-7: the fields written on the operation itself.
apply_status(job_op, new_status, quantity_completed, quantity_rejected, t) ==
    IF new_status = OP_STATUS_IN_PROGRESS /\ job_op.status # OP_STATUS_PAUSED
    THEN [job_op EXCEPT !.actual_start_time = t, !.status = new_status]
    ELSE IF new_status = OP_STATUS_COMPLETED
    THEN [job_op EXCEPT !.quantity_completed = quantity_completed,
                        !.quantity_rejected = rejected_or_zero(quantity_rejected),
                        !.status = new_status]
    ELSE [job_op EXCEPT !.status = new_status]

\* next_ops of step 8: the operations of the same job with the following
\* sequence number.
next_ops(table, job_op) ==
    {id \in DOMAIN table :
        /\ table[id].job_id = job_op.job_id
        /\ table[id].sequence_number = job_op.sequence_number + 1}

\* The condition under which step 8 promotes the next operation.
is_planned(next_op) ==
    /\ next_op.machine_id # None
    /\ next_op.shift_id # None
    /\ next_op.planned_start_date # NoneInt
    /\ next_op.planned_end_date # NoneInt

\* An auto-advance that promotes the next operation whether planned or not.
advance_unconditionally(next_op) ==
    [next_op EXCEPT !.status = OP_STATUS_READY]

\* Step 8 on the next operation.
advance(next_op) ==
    IF is_planned(next_op)
    THEN [next_op EXCEPT !.status = OP_STATUS_READY]
    ELSE [next_op EXCEPT !.status = OP_STATUS_NOT_STARTED, !.needs_planning = TRUE]

\* Step 8: the table after auto-advance, once job_operation_id is completed.
auto_advance(table, job_operation_id, next_id) ==
    IF next_ops(table, table[job_operation_id]) = {} THEN table
    ELSE [table EXCEPT ![next_id] = advance(table[next_id])]

\* The notification create_notification stores.
Notification(tenant_id, user_id, notif_type, entity_ref) ==
    [tenant_id |-> tenant_id, user_id |-> user_id, type |-> notif_type,
     entity_reference |-> entity_ref, is_read |-> FALSE]

\* Step 8: the notifications after auto-advance.
auto_advance_notifications(notifications, table, job_operation_id, next_id) ==
    IF next_ops(table, table[job_operation_id]) # {} /\ is_planned(table[next_id])
    THEN Append(notifications,
                Notification(table[job_operation_id].tenant_id, None, "READY",
                             table[next_id].job_operation_id))
    ELSE notifications

\* A rollup that completes the job as soon as one operation is COMPLETED.
rollup_any_completed(job_status, statuses) ==
    IF \E s \in statuses : s = OP_STATUS_COMPLETED THEN "COMPLETED"
    ELSE IF \E s \in statuses : s = OP_STATUS_IN_PROGRESS THEN "IN_PROGRESS"
    ELSE job_status

\* Step 9: the job status computed from the statuses of the job's operations.
rollup(job_status, statuses) ==
    IF \A s \in statuses : s = OP_STATUS_COMPLETED THEN "COMPLETED"
    ELSE IF \E s \in statuses : s = OP_STATUS_IN_PROGRESS THEN "IN_PROGRESS"
    ELSE job_status

\* Step 9: JOBS_TABLE after the parent job status update.
update_parent_job(jobs, table, job_id, t) ==
    IF job_id \notin DOMAIN jobs THEN jobs
    ELSE [jobs EXCEPT ![job_id] =
            [@ EXCEPT !.status =
                        rollup(jobs[job_id].status,
                               {table[id].status :
                                     id \in {i \in DOMAIN table :
                                               table[i].job_id = jobs[job_id].job_id}}),
                      !.updated_at = t]]

\* An audit record whose before status is read after the status write.
status_changed_before_overwritten(job_op, new_status, quantity_completed, quantity_rejected) ==
    AuditRecord(job_op.tenant_id, job_op.job_operation_id, "STATUS_CHANGED",
                [status |-> new_status],
                [status |-> new_status, quantity_completed |-> quantity_completed,
                 quantity_rejected |-> quantity_rejected])

\* The audit record of a status change: before is the status read at the
\* start of the call; quantity_rejected is the local variable, which a
\* completion has replaced by quantity_rejected or 0.
status_changed(job_op, new_status, quantity_completed, quantity_rejected) ==
    AuditRecord(job_op.tenant_id, job_op.job_operation_id, "STATUS_CHANGED",
                [status |-> job_op.status],
                [status |-> new_status, quantity_completed |-> quantity_completed,
                 quantity_rejected |-> IF new_status = OP_STATUS_COMPLETED
                                       THEN rejected_or_zero(quantity_rejected)
                                       ELSE quantity_rejected])

\* update_job_operation_status(job_operation_id, new_status, tenant_id=...,
\* quantity_completed=..., quantity_rejected=..., rework_flag=...,
\* rework_note=..., override_sequence=...)
update_job_operation_status(job_operation_id, new_status, tenant_id, quantity_completed, quantity_rejected, rework_flag, rework_note, override_sequence) ==
    LET result == update_status_result(JOBS_TABLE, JOB_OPERATIONS_TABLE,
                      job_operation_id, new_status, tenant_id,
                      quantity_completed, quantity_rejected,
                      rework_flag, rework_note, override_sequence)
    IN
    /\ outcome = Idle
    /\ outcome' = [Outcome("update_job_operation_status", job_operation_id, result)
                      EXCEPT !.audit =
                         IF result = OK
                         THEN <<status_changed(JOB_OPERATIONS_TABLE[job_operation_id],
                                               new_status, quantity_completed,
                                               quantity_rejected)>>
                         ELSE <<>>]
    /\ IF result # OK
       THEN UNCHANGED <<JOBS_TABLE, JOB_OPERATIONS_TABLE, NOTIFICATIONS_TABLE>>
       ELSE LET job_op == JOB_OPERATIONS_TABLE[job_operation_id]
                updated == [JOB_OPERATIONS_TABLE EXCEPT ![job_operation_id] =
                              apply_status(job_op, new_status, quantity_completed,
                                           quantity_rejected, now)]
                \* at most one operation of a job has a given sequence
                \* number, so next_ops[0] is the only element of next_ops
                next_id == IF next_ops(updated, job_op) = {} THEN job_operation_id
                           ELSE CHOOSE id \in next_ops(updated, job_op) : TRUE
                advanced == IF new_status = OP_STATUS_COMPLETED
                            THEN auto_advance(updated, job_operation_id, next_id)
                            ELSE updated
            IN
            /\ JOB_OPERATIONS_TABLE' = advanced
            /\ NOTIFICATIONS_TABLE' =
                  IF new_status = OP_STATUS_COMPLETED
                  THEN auto_advance_notifications(NOTIFICATIONS_TABLE, updated,
                                                  job_operation_id, next_id)
                  ELSE NOTIFICATIONS_TABLE
            /\ Len(NOTIFICATIONS_TABLE') <= MaxNotifications
            /\ JOBS_TABLE' = update_parent_job(JOBS_TABLE, advanced, job_op.job_id, now)
    /\ UNCHANGED <<PARTS_TABLE, ROUTES_JOBS_TABLE, JOB_OPERATION_PRODUCTION_TABLE, now, threads>>

\* ------------------------------------------------------------------
\* Planning and rescheduling
\* ------------------------------------------------------------------
MAX_OPS_PER_SHIFT == 3

ERR_PLAN_CLOSED == "Cannot reschedule or plan an operation that is COMPLETED or CANCELLED"
ERR_FORCE == "Operation is active. Set force=true and provide reason."
ERR_FORCE_REASON == "Reschedule reason is required for active operations."
ERR_MACHINE == "Machine not found"
ERR_SHIFT == "Shift not found"
ERR_DATE_FORMAT == "Invalid date format. Use ISO format YYYY-MM-DD"
ERR_DATE_ORDER == "planned_start_date cannot be after planned_end_date"
ERR_CAPACITY == "Machine capacity overloaded"
ERR_IGNORE_REASON == "A reason is required when ignoring capacity conflicts."

\* A scan that does not skip the operation being planned.
clashing_ops_counting_self(table, job_operation_id, machine_id, shift_id, start_date, end_date) ==
    {id \in DOMAIN table :
        /\ table[id].machine_id = machine_id
        /\ table[id].shift_id = shift_id
        /\ table[id].planned_start_date # NoneInt
        /\ table[id].planned_end_date # NoneInt
        /\ start_date <= table[id].planned_end_date
        /\ end_date >= table[id].planned_start_date}

\* clashing_ops: the other operations on the same machine and shift whose
\* planned window intersects the requested one.
clashing_ops(table, job_operation_id, machine_id, shift_id, start_date, end_date) ==
    {id \in DOMAIN table :
        /\ table[id].job_operation_id # job_operation_id
        /\ table[id].machine_id = machine_id
        /\ table[id].shift_id = shift_id
        /\ table[id].planned_start_date # NoneInt
        /\ table[id].planned_end_date # NoneInt
        /\ start_date <= table[id].planned_end_date
        /\ end_date >= table[id].planned_start_date}

\* The first status guard alone is missing: only COMPLETED is closed.
plan_closed_completed_only(status) ==
    status = "COMPLETED"

\* The status guards before the rescheduling guards: the operation is closed.
plan_closed(status) ==
    status \in {"COMPLETED", "CANCELLED"} \/ status = "COMPLETED"

\* Only an operation that is running counts as active.
is_active_in_progress_only(status) ==
    status = "IN_PROGRESS"

\* current_status in ["IN_PROGRESS", "PAUSED"]
is_active(status) ==
    status \in {"IN_PROGRESS", "PAUSED"}

\* A capacity rule that trips only above the ceiling.
capacity_exceeded(clashing) ==
    Cardinality(clashing) > MAX_OPS_PER_SHIFT

\* len(clashing_ops) >= MAX_OPS_PER_SHIFT
capacity_reached(clashing) ==
    Cardinality(clashing) >= MAX_OPS_PER_SHIFT

\* The guards of plan_job_operation_service: OK, or the message raised.
plan_result(table, job_operation_id, machine_id, shift_id, planned_start_date, planned_end_date, force, reschedule_reason, ignore_conflicts, tenant_id) ==
    IF job_operation_id \notin DOMAIN table THEN ERR_NOT_FOUND
    ELSE IF tenant_mismatch(table[job_operation_id], tenant_id) THEN ERR_UNAUTHORIZED
    ELSE IF plan_closed(table[job_operation_id].status) THEN ERR_PLAN_CLOSED
    ELSE IF is_active(table[job_operation_id].status) /\ ~force THEN ERR_FORCE
    ELSE IF is_active(table[job_operation_id].status) /\ reschedule_reason = None
         THEN ERR_FORCE_REASON
    ELSE IF machine_id \notin DOMAIN MACHINES_TABLE
            \/ MACHINES_TABLE[machine_id].tenant_id # table[job_operation_id].tenant_id
         THEN ERR_MACHINE
    ELSE IF shift_id \notin DOMAIN SHIFTS_TABLE
            \/ SHIFTS_TABLE[shift_id].tenant_id # table[job_operation_id].tenant_id
         THEN ERR_SHIFT
    ELSE IF planned_start_date = BadDate \/ planned_end_date = BadDate
         THEN ERR_DATE_FORMAT
    ELSE IF planned_start_date > planned_end_date THEN ERR_DATE_ORDER
    ELSE IF capacity_reached(clashing_ops(table, job_operation_id, machine_id, shift_id,
                                          planned_start_date, planned_end_date))
            /\ ~ignore_conflicts
         THEN ERR_CAPACITY
    ELSE IF capacity_reached(clashing_ops(table, job_operation_id, machine_id, shift_id,
                                          planned_start_date, planned_end_date))
            /\ reschedule_reason = None
         THEN ERR_IGNORE_REASON
    ELSE OK

\* The clashes CapacityConflictError carries: one entry per clashing operation.
clashes(table, ids) ==
    {[job_operation_id |-> table[id].job_operation_id, job_id |-> table[id].job_id,
      status |-> table[id].status] : id \in ids}

\* The audit record of a plan or reschedule.
plan_audit(job_op, machine_id, shift_id, planned_start_date, reschedule_reason) ==
    AuditRecord(job_op.tenant_id, job_op.job_operation_id,
                IF job_op.status = "NOT_STARTED" THEN "OP_PLANNED" ELSE "OP_RESCHEDULED",
                [machine |-> job_op.machine_id, start |-> job_op.planned_start_date],
                [machine |-> machine_id, shift |-> shift_id,
                 start |-> planned_start_date, reason |-> reschedule_reason])

\* An update that also makes a planned NOT_STARTED operation READY and
\* clears its needs_planning flag.
apply_plan_promoting(job_op, machine_id, shift_id, planned_start_date, planned_end_date, t) ==
    [job_op EXCEPT !.machine_id = machine_id,
                   !.shift_id = shift_id,
                   !.planned_start_date = planned_start_date,
                   !.planned_end_date = planned_end_date,
                   !.updated_at = t,
                   !.needs_planning = FALSE,
                   !.status = IF @ = OP_STATUS_NOT_STARTED THEN OP_STATUS_READY ELSE @]

\* job_op.update({...}) of plan_job_operation_service
apply_plan(job_op, machine_id, shift_id, planned_start_date, planned_end_date, t) ==
    [job_op EXCEPT !.machine_id = machine_id,
                   !.shift_id = shift_id,
                   !.planned_start_date = planned_start_date,
                   !.planned_end_date = planned_end_date,
                   !.updated_at = t]

\* plan_job_operation_service(job_operation_id, machine_id, shift_id,
\* planned_start_date, planned_end_date, force, reschedule_reason,
\* ignore_conflicts, tenant_id=...)
plan_job_operation_service(job_operation_id, machine_id, shift_id, planned_start_date, planned_end_date, force, reschedule_reason, ignore_conflicts, tenant_id) ==
    LET result == plan_result(JOB_OPERATIONS_TABLE, job_operation_id, machine_id,
                      shift_id, planned_start_date, planned_end_date, force,
                      reschedule_reason, ignore_conflicts, tenant_id)
    IN
    /\ outcome = Idle
    /\ outcome' = [Outcome("plan_job_operation_service", job_operation_id, result)
                      EXCEPT !.clashes =
                         IF result = ERR_CAPACITY
                         THEN clashes(JOB_OPERATIONS_TABLE,
                                      clashing_ops(JOB_OPERATIONS_TABLE, job_operation_id,
                                                   machine_id, shift_id,
                                                   planned_start_date, planned_end_date))
                         ELSE {},
                             !.audit =
                         IF result = OK
                         THEN <<plan_audit(JOB_OPERATIONS_TABLE[job_operation_id],
                                           machine_id, shift_id, planned_start_date,
                                           reschedule_reason)>>
                         ELSE <<>>]
    /\ JOB_OPERATIONS_TABLE' =
          IF result = OK
          THEN [JOB_OPERATIONS_TABLE EXCEPT ![job_operation_id] =
                  apply_plan(@, machine_id, shift_id, planned_start_date,
                             planned_end_date, now)]
          ELSE JOB_OPERATIONS_TABLE
    \* the CONFLICT notification is created before CapacityConflictError is raised
    /\ NOTIFICATIONS_TABLE' =
          IF result = ERR_CAPACITY
          THEN Append(NOTIFICATIONS_TABLE,
                      Notification(JOB_OPERATIONS_TABLE[job_operation_id].tenant_id,
                                   None, "CONFLICT", job_operation_id))
          ELSE NOTIFICATIONS_TABLE
    /\ Len(NOTIFICATIONS_TABLE') <= MaxNotifications
    /\ UNCHANGED <<PARTS_TABLE, JOBS_TABLE, ROUTES_JOBS_TABLE,
                   JOB_OPERATION_PRODUCTION_TABLE, now, threads>>

\* ------------------------------------------------------------------
\* Production ledger
\* ------------------------------------------------------------------
\* JOB_OPERATION_PRODUCTION_TABLE.get(job_operation_id, [])
existing_entries(production, job_operation_id) ==
    IF job_operation_id \in DOMAIN production THEN production[job_operation_id]
    ELSE <<>>

RECURSIVE SumProduced(_)
SumProduced(entries) ==
    IF entries = <<>> THEN 0 ELSE Head(entries).produced_qty + SumProduced(Tail(entries))

RECURSIVE SumScrap(_)
SumScrap(entries) ==
    IF entries = <<>> THEN 0 ELSE Head(entries).scrap_qty + SumScrap(Tail(entries))

RECURSIVE SumRework(_)
SumRework(entries) ==
    IF entries = <<>> THEN 0 ELSE Head(entries).rework_qty + SumRework(Tail(entries))

\* A quantity check that compares the new entry alone with the job's
\* quantity.
exceeds_job_quantity_entry_alone(entries, produced_qty, scrap_qty, rework_qty, planned_qty) ==
    produced_qty + scrap_qty + rework_qty > planned_qty

\* Step 5 of add_production_entry_service: the entry would take the
\* operation's recorded quantities over the job's quantity.
exceeds_job_quantity(entries, produced_qty, scrap_qty, rework_qty, planned_qty) ==
    SumProduced(entries) + SumScrap(entries) + SumRework(entries)
        + (produced_qty + scrap_qty + rework_qty) > planned_qty

\* The guards without the refusal of a COMPLETED operation.
production_result_completed_unchecked(jobs, table, production, job_operation_id, produced_qty, scrap_qty, rework_qty, tenant_id) ==
    IF job_operation_id \notin DOMAIN table THEN ERR_NOT_FOUND
    ELSE IF tenant_mismatch(table[job_operation_id], tenant_id) THEN ERR_UNAUTHORIZED
    ELSE IF produced_qty < 0 \/ scrap_qty < 0 \/ rework_qty < 0 THEN ERR_NEGATIVE_QTY
    ELSE IF produced_qty + scrap_qty + rework_qty = 0 THEN ERR_EMPTY_ENTRY
    ELSE IF table[job_operation_id].job_id \notin DOMAIN jobs THEN ERR_PARENT_JOB
    ELSE IF exceeds_job_quantity(existing_entries(production, job_operation_id),
                                 produced_qty, scrap_qty, rework_qty,
                                 jobs[table[job_operation_id].job_id].quantity)
         THEN ERR_EXCEEDS_JOB_QTY
    ELSE OK

\* The guards of add_production_entry_service: OK, or the message raised.
production_result(jobs, table, production, job_operation_id, produced_qty, scrap_qty, rework_qty, tenant_id) ==
    IF job_operation_id \notin DOMAIN table THEN ERR_NOT_FOUND
    ELSE IF tenant_mismatch(table[job_operation_id], tenant_id) THEN ERR_UNAUTHORIZED
    ELSE IF table[job_operation_id].status = OP_STATUS_COMPLETED THEN ERR_OP_COMPLETED
    ELSE IF produced_qty < 0 \/ scrap_qty < 0 \/ rework_qty < 0 THEN ERR_NEGATIVE_QTY
    ELSE IF produced_qty + scrap_qty + rework_qty = 0 THEN ERR_EMPTY_ENTRY
    ELSE IF table[job_operation_id].job_id \notin DOMAIN jobs THEN ERR_PARENT_JOB
    ELSE IF exceeds_job_quantity(existing_entries(production, job_operation_id),
                                 produced_qty, scrap_qty, rework_qty,
                                 jobs[table[job_operation_id].job_id].quantity)
         THEN ERR_EXCEEDS_JOB_QTY
    ELSE OK

production_record(produced_qty, scrap_qty, rework_qty) ==
    [produced_qty |-> produced_qty, scrap_qty |-> scrap_qty, rework_qty |-> rework_qty]

\* A save made before the guards, whatever their result.
save_entry_before_guards(production, job_operation_id, record, result) ==
    Put(production, job_operation_id,
        Append(existing_entries(production, job_operation_id), record))

\* Step 6: the production table once the guards have passed (result = OK);
\* a call that raised never reaches it.
save_entry(production, job_operation_id, record, result) ==
    IF result = OK
    THEN Put(production, job_operation_id,
             Append(existing_entries(production, job_operation_id), record))
    ELSE production

\* Totals that count the new entry alone.
apply_totals_last_entry(job_op, entries, produced_qty, scrap_qty, rework_qty, t) ==
    [job_op EXCEPT !.total_produced = produced_qty,
                   !.total_scrap = scrap_qty,
                   !.total_rework = rework_qty,
                   !.updated_at = t]

\* Step 7: the computed totals written on the operation.
apply_totals(job_op, entries, produced_qty, scrap_qty, rework_qty, t) ==
    [job_op EXCEPT !.total_produced = SumProduced(entries) + produced_qty,
                   !.total_scrap = SumScrap(entries) + scrap_qty,
                   !.total_rework = SumRework(entries) + rework_qty,
                   !.updated_at = t]

\* The dict add_production_entry_service returns: the totals of the
\* operation and len(existing_entries) after the append.
production_response(job_op, entries) ==
    [job_operation_id |-> job_op.job_operation_id,
     totals |-> [total_produced |-> job_op.total_produced,
                 total_scrap |-> job_op.total_scrap,
                 total_rework |-> job_op.total_rework],
     entries_count |-> Len(entries)]

\* add_production_entry_service(job_operation_id=..., produced_qty=...,
\* scrap_qty=..., rework_qty=..., operator_id=..., tenant_id=...)
add_production_entry_service(job_operation_id, produced_qty, scrap_qty, rework_qty, tenant_id) ==
    LET result == production_result(JOBS_TABLE, JOB_OPERATIONS_TABLE,
                      JOB_OPERATION_PRODUCTION_TABLE, job_operation_id,
                      produced_qty, scrap_qty, rework_qty, tenant_id)
        entries == existing_entries(JOB_OPERATION_PRODUCTION_TABLE, job_operation_id)
    IN
    /\ outcome = Idle
    /\ outcome' =
          [Outcome("add_production_entry_service", job_operation_id, result)
              EXCEPT !.returned =
                 IF result = OK
                 THEN production_response(
                         apply_totals(JOB_OPERATIONS_TABLE[job_operation_id], entries,
                                      produced_qty, scrap_qty, rework_qty, now),
                         Append(entries,
                                production_record(produced_qty, scrap_qty, rework_qty)))
                 ELSE <<>>]
    /\ JOB_OPERATION_PRODUCTION_TABLE' =
          save_entry(JOB_OPERATION_PRODUCTION_TABLE, job_operation_id,
                     production_record(produced_qty, scrap_qty, rework_qty), result)
    /\ JOB_OPERATIONS_TABLE' =
          IF result = OK
          THEN [JOB_OPERATIONS_TABLE EXCEPT ![job_operation_id] =
                  apply_totals(@, entries, produced_qty, scrap_qty, rework_qty, now)]
          ELSE JOB_OPERATIONS_TABLE
    /\ UNCHANGED <<PARTS_TABLE, JOBS_TABLE, ROUTES_JOBS_TABLE, NOTIFICATIONS_TABLE, now, threads>>

\* ------------------------------------------------------------------
\* Specification
\* ------------------------------------------------------------------
\* Inputs.  An argument a call does not read on the path taken is held at
\* one value.
JobQuantities == {MaxQty}
OperationIdInputs ==
    {JobOperationId(j, o) : j \in JobIds, o \in {"op-cut", "op-drill", "op-paint"}}
        \cup {JobOperationId("job-9", "op-cut")}
StatusInputs == OpStatuses \cup {"ON_HOLD"}
\* <<quantity_completed, quantity_rejected, rework_flag, rework_note>>
CompletionInputs ==
    {<<NoneInt, NoneInt, FALSE, None>>, <<-1, NoneInt, FALSE, None>>,
     <<0, -1, FALSE, None>>, <<MaxQty + 1, NoneInt, FALSE, None>>,
     <<MaxQty, 1, FALSE, None>>, <<MaxQty, NoneInt, TRUE, None>>,
     <<MaxQty, NoneInt, TRUE, "note">>, <<MaxQty, NoneInt, FALSE, None>>}
\* <<machine_id, shift_id, planned_start_date, planned_end_date>>
ValidPlanInputs == {<<"machine-1", "shift-A", 1, MaxDate>>}
InvalidPlanInputs ==
    {<<"machine-9", "shift-A", 1, 1>>, <<"machine-1", "shift-9", 1, 1>>,
     <<"machine-1", "shift-A", BadDate, 1>>, <<"machine-1", "shift-A", MaxDate, 1>>}
\* <<force, reschedule_reason, ignore_conflicts>>
ForceInputs ==
    {<<FALSE, None, FALSE>>, <<TRUE, None, FALSE>>, <<TRUE, "reason", FALSE>>}
\* <<produced_qty, scrap_qty, rework_qty>>
EntryInputs ==
    {<<1, 0, 0>>, <<0, 1, 1>>, <<0, 0, 0>>, <<0, -1, 0>>, <<MaxQty, 1, 0>>}
\* The operations production is recorded on.
ProductionIdInputs ==
    {JobOperationId(j, o) : j \in JobIds, o \in {"op-cut", "op-drill"}}
        \cup {JobOperationId("job-9", "op-cut")}

Next ==
    \/ Return
    \/ \E job_id \in JobIds, quantity \in JobQuantities :
          put_job(job_id, "tenant-1", quantity)
    \/ \E job_id \in JobIds, part_id \in PartIds, tenant_id \in TenantIds :
          create_job_operations(job_id, part_id, tenant_id)
    \/ \E job_id \in JobIds, part_id \in PartIds, tenant_id \in TenantIds,
          quantity \in {0} \cup JobQuantities :
          create_job(job_id, part_id, tenant_id, quantity)
    \/ \E id \in OperationIdInputs, new_status \in StatusInputs \ {OP_STATUS_COMPLETED},
          override_sequence \in BOOLEAN :
          update_job_operation_status(id, new_status, "tenant-1", NoneInt, NoneInt,
                                      FALSE, None, override_sequence)
    \/ \E id \in OperationIdInputs, c \in CompletionInputs,
          override_sequence \in BOOLEAN :
          update_job_operation_status(id, OP_STATUS_COMPLETED, "tenant-1",
                                      c[1], c[2], c[3], c[4], override_sequence)
    \/ \E id \in OperationIdInputs :
          update_job_operation_status(id, OP_STATUS_IN_PROGRESS, "tenant-2",
                                      NoneInt, NoneInt, FALSE, None, TRUE)
    \/ \E id \in OperationIdInputs, p \in ValidPlanInputs, f \in ForceInputs :
          plan_job_operation_service(id, p[1], p[2], p[3], p[4], f[1], f[2], f[3],
                                     "tenant-1")
    \/ \E id \in OperationIdInputs, p \in InvalidPlanInputs :
          plan_job_operation_service(id, p[1], p[2], p[3], p[4], TRUE, "reason",
                                     FALSE, "tenant-1")
    \/ \E id \in OperationIdInputs, p \in ValidPlanInputs :
          plan_job_operation_service(id, p[1], p[2], p[3], p[4], TRUE, "reason",
                                     FALSE, "tenant-2")
    \/ \E id \in ProductionIdInputs, e \in EntryInputs :
          add_production_entry_service(id, e[1], e[2], e[3], "tenant-1")
    \/ \E id \in ProductionIdInputs :
          add_production_entry_service(id, 1, 0, 0, "tenant-2")

Spec == Init /\ [][Next]_vars

\* ------------------------------------------------------------------
\* Route generation over every part catalog
\* ------------------------------------------------------------------
RouteEntries == {"op-cut", "op-drill", "op-weld"}

Routes == UNION {[1..n -> RouteEntries] : n \in 0..MaxRouteLen}

RouteJobIds == {"job-1", "job-2"}

\* PARTS_TABLE holds part-1, of either tenant, with any route.
InitRoutes ==
    /\ \E tenant_id \in TenantIds, route \in Routes :
          PARTS_TABLE = [p \in {"part-1"} |->
                           [part_id |-> p, tenant_id |-> tenant_id,
                            default_operations_route |-> route]]
    /\ JOBS_TABLE = EmptyDict
    /\ ROUTES_JOBS_TABLE = EmptyDict
    /\ JOB_OPERATIONS_TABLE = EmptyDict
    /\ JOB_OPERATION_PRODUCTION_TABLE = EmptyDict
    /\ NOTIFICATIONS_TABLE = <<>>
    /\ now = 0
    /\ outcome = Idle
    /\ threads = NoCalls

NextRoutes ==
    \/ Return
    \/ \E job_id \in RouteJobIds, part_id \in PartIds, tenant_id \in TenantIds :
          create_job_operations(job_id, part_id, tenant_id)
    \/ \E job_id \in RouteJobIds, part_id \in PartIds, tenant_id \in TenantIds,
          fail_at \in 0..MaxRouteLen :
          create_job_operations_interrupted(job_id, part_id, tenant_id, fail_at)

SpecRoutes == InitRoutes /\ [][NextRoutes]_vars

\* ------------------------------------------------------------------
\* Properties
\* ------------------------------------------------------------------
\* The operations of a job.
\* ------------------------------------------------------------------
\* Planning of the operations of two jobs
\* ------------------------------------------------------------------
\* The operations that are planned.
PlanTargets ==
    {JobOperationId("job-1", "op-cut"), JobOperationId("job-1", "op-drill"),
     JobOperationId("job-1", "op-paint"), JobOperationId("job-2", "op-drill")}

\* The operation that is started, paused, completed and cancelled.
ActiveTarget == JobOperationId("job-2", "op-drill")

\* <<machine_id, shift_id, planned_start_date, planned_end_date>>
PlanSlots ==
    {<<"machine-1", "shift-A", 1, 1>>, <<"machine-1", "shift-A", MaxDate, MaxDate>>,
     <<"machine-2", "shift-A", 1, MaxDate>>}

\* The slots and a window of machine-1 that covers the two others.
OverlappingSlots == PlanSlots \cup {<<"machine-1", "shift-A", 1, MaxDate>>}

\* <<force, reschedule_reason, ignore_conflicts>>
PlanFlags ==
    {<<FALSE, None, FALSE>>, <<FALSE, None, TRUE>>, <<FALSE, "reason", TRUE>>,
     <<TRUE, None, FALSE>>, <<TRUE, "reason", FALSE>>, <<TRUE, "reason", TRUE>>}

\* The tables once job-1 and job-2 of tenant-1, for part-1, are stored and
\* their routes generated.
InitPlanning ==
    /\ now = 0
    /\ PARTS_TABLE = DEFAULT_PARTS_TABLE
    /\ JOBS_TABLE = [j \in {"job-1", "job-2"} |-> JobHeader(j, "tenant-1", MaxQty)]
    /\ ROUTES_JOBS_TABLE = EmptyDict
    /\ JOB_OPERATIONS_TABLE =
          create_job_operations_table(DEFAULT_PARTS_TABLE,
              create_job_operations_table(DEFAULT_PARTS_TABLE, EmptyDict,
                                          "job-1", "part-1", "tenant-1"),
              "job-2", "part-1", "tenant-1")
    /\ JOB_OPERATION_PRODUCTION_TABLE = EmptyDict
    /\ NOTIFICATIONS_TABLE = <<>>
    /\ outcome = Idle
    /\ threads = NoCalls

NextPlanning ==
    \/ Return
    \/ \E id \in PlanTargets, p \in PlanSlots, f \in PlanFlags :
          /\ plan_job_operation_service(id, p[1], p[2], p[3], p[4], f[1], f[2], f[3],
                                        "tenant-1")
          /\ Len(NOTIFICATIONS_TABLE') <= MaxConflicts
    \/ \E p \in InvalidPlanInputs, force \in BOOLEAN :
          plan_job_operation_service(ActiveTarget, p[1], p[2], p[3], p[4], force,
                                     "reason", FALSE, "tenant-1")
    \/ \E new_status \in {OP_STATUS_IN_PROGRESS, OP_STATUS_PAUSED, OP_STATUS_CANCELLED} :
          update_job_operation_status(ActiveTarget, new_status, "tenant-1", NoneInt,
                                      NoneInt, FALSE, None, TRUE)
    \/ update_job_operation_status(ActiveTarget, OP_STATUS_COMPLETED, "tenant-1",
                                   MaxQty, NoneInt, FALSE, None, TRUE)

SpecPlanning == InitPlanning /\ [][NextPlanning]_vars

\* The flags of the calls that do not ignore conflicts.
NoIgnoreFlags == {f \in PlanFlags : ~f[3]}

\* Planning in which no call ignores conflicts.
NextNoIgnore ==
    \/ Return
    \/ \E id \in PlanTargets, p \in OverlappingSlots, f \in NoIgnoreFlags :
          /\ plan_job_operation_service(id, p[1], p[2], p[3], p[4], f[1], f[2], f[3],
                                        "tenant-1")
          /\ Len(NOTIFICATIONS_TABLE') <= MaxConflicts

SpecNoIgnore == InitPlanning /\ [][NextNoIgnore]_vars

\* ------------------------------------------------------------------
\* Calls of two tenants
\* ------------------------------------------------------------------
\* part-1 of tenant-1 and a part of tenant-2.
TWO_TENANT_PARTS_TABLE ==
    [p \in {"part-1", "part-2"} |->
        IF p = "part-1" THEN DEFAULT_PARTS_TABLE["part-1"]
        ELSE [part_id |-> p, tenant_id |-> "tenant-2",
              default_operations_route |-> <<"op-cut">>]]

\* The operations called: one of each tenant and one that is not stored.
TenantTargets ==
    {JobOperationId("job-1", "op-cut"), JobOperationId("job-1", "op-drill"),
     JobOperationId("job-2", "op-cut"), JobOperationId("job-9", "op-cut")}

\* The tables once job-1 of tenant-1 and job-2 of tenant-2 are stored and
\* their routes generated.
InitTenants ==
    /\ now = 0
    /\ PARTS_TABLE = TWO_TENANT_PARTS_TABLE
    /\ JOBS_TABLE = [j \in {"job-1", "job-2"} |->
                       JobHeader(j, IF j = "job-1" THEN "tenant-1" ELSE "tenant-2", MaxQty)]
    /\ ROUTES_JOBS_TABLE = EmptyDict
    /\ JOB_OPERATIONS_TABLE =
          create_job_operations_table(TWO_TENANT_PARTS_TABLE,
              create_job_operations_table(TWO_TENANT_PARTS_TABLE, EmptyDict,
                                          "job-1", "part-1", "tenant-1"),
              "job-2", "part-2", "tenant-2")
    /\ JOB_OPERATION_PRODUCTION_TABLE = EmptyDict
    /\ NOTIFICATIONS_TABLE = <<>>
    /\ outcome = Idle
    /\ threads = NoCalls

NextTenants ==
    \/ Return
    \/ \E id \in TenantTargets, tenant_id \in TenantIds,
          new_status \in {OP_STATUS_IN_PROGRESS, OP_STATUS_PAUSED, OP_STATUS_CANCELLED} :
          update_job_operation_status(id, new_status, tenant_id, NoneInt, NoneInt,
                                      FALSE, None, TRUE)
    \/ \E id \in TenantTargets, tenant_id \in TenantIds :
          update_job_operation_status(id, OP_STATUS_COMPLETED, tenant_id, MaxQty,
                                      NoneInt, FALSE, None, TRUE)
    \/ \E id \in TenantTargets, tenant_id \in TenantIds, p \in ValidPlanInputs :
          plan_job_operation_service(id, p[1], p[2], p[3], p[4], TRUE, "reason",
                                     FALSE, tenant_id)
    \/ \E id \in TenantTargets, tenant_id \in TenantIds :
          add_production_entry_service(id, 1, 0, 0, tenant_id)

SpecTenants == InitTenants /\ [][NextTenants]_vars

\* ------------------------------------------------------------------
\* Calls served at the same time
\* ------------------------------------------------------------------
\* A call in progress in a thread: the statement it has reached, its
\* arguments, its local variables and, once it has returned or raised, its
\* result and the audit records it wrote.
Call(pc, call, id, args, result, audit, locals) ==
    [pc |-> pc, call |-> call, id |-> id, args |-> args, result |-> result,
     audit |-> audit, locals |-> locals]

\* The thread has sent its response and waits for the next request.
thread_return(t) ==
    /\ threads[t].pc = "returned"
    /\ threads' = [threads EXCEPT ![t] = Waiting]
    /\ UNCHANGED <<tables, now, outcome>>

\* Steps 1-3 of add_production_entry_service: OK, or the message raised.
entry_guards(table, job_operation_id, produced_qty, scrap_qty, rework_qty, tenant_id) ==
    IF job_operation_id \notin DOMAIN table THEN ERR_NOT_FOUND
    ELSE IF tenant_mismatch(table[job_operation_id], tenant_id) THEN ERR_UNAUTHORIZED
    ELSE IF table[job_operation_id].status = OP_STATUS_COMPLETED THEN ERR_OP_COMPLETED
    ELSE IF produced_qty < 0 \/ scrap_qty < 0 \/ rework_qty < 0 THEN ERR_NEGATIVE_QTY
    ELSE IF produced_qty + scrap_qty + rework_qty = 0 THEN ERR_EMPTY_ENTRY
    ELSE OK

\* The other calls of add_production_entry_service whose existing_entries
\* is the list object stored under job_operation_id, the one t holds too.
same_list(t, job_operation_id) ==
    {u \in Threads \ {t} :
        /\ threads[u].call = "add_production_entry_service"
        /\ threads[u].id = job_operation_id
        /\ threads[u].locals.stored}

\* Steps 1-4: the guards, then existing_entries and its three sums.
\* existing_entries is the list stored under the key (stored), or a new
\* empty list when the key is absent.
production_read(t, job_operation_id, produced_qty, scrap_qty, rework_qty, tenant_id) ==
    LET result == entry_guards(JOB_OPERATIONS_TABLE, job_operation_id, produced_qty,
                               scrap_qty, rework_qty, tenant_id)
        entries == existing_entries(JOB_OPERATION_PRODUCTION_TABLE, job_operation_id)
        locals == [existing_entries |-> entries,
                   stored |-> job_operation_id \in DOMAIN JOB_OPERATION_PRODUCTION_TABLE,
                   total_produced |-> SumProduced(entries),
                   total_scrap |-> SumScrap(entries),
                   total_rework |-> SumRework(entries)]
    IN
    /\ threads[t].pc = "waiting"
    /\ threads' = [threads EXCEPT ![t] =
          Call(IF result = OK THEN "entries_read" ELSE "returned",
               "add_production_entry_service", job_operation_id,
               <<produced_qty, scrap_qty, rework_qty>>, result, <<>>, locals)]
    /\ UNCHANGED <<tables, now, outcome>>

\* Step 5: the job is fetched and the sums taken in step 4 are compared with
\* its quantity.
production_check(t) ==
    LET c == threads[t]
        job_id == JOB_OPERATIONS_TABLE[c.id].job_id
        result ==
            IF job_id \notin DOMAIN JOBS_TABLE THEN ERR_PARENT_JOB
            ELSE IF c.locals.total_produced + c.locals.total_scrap + c.locals.total_rework
                       + (c.args[1] + c.args[2] + c.args[3]) > JOBS_TABLE[job_id].quantity
                 THEN ERR_EXCEEDS_JOB_QTY
            ELSE OK
    IN
    /\ c.call = "add_production_entry_service"
    /\ c.pc = "entries_read"
    /\ threads' = [threads EXCEPT ![t].pc = IF result = OK THEN "checked" ELSE "returned",
                                  ![t].result = result]
    /\ UNCHANGED <<tables, now, outcome>>

\* existing_entries.append(production_record): the list object grows, in
\* the table too when it is the stored one, and in every call that holds it.
production_append(t) ==
    LET c == threads[t]
        appended == Append(c.locals.existing_entries,
                           production_record(c.args[1], c.args[2], c.args[3]))
        holders == IF c.locals.stored THEN same_list(t, c.id) \cup {t} ELSE {t}
    IN
    /\ c.call = "add_production_entry_service"
    /\ c.pc = "checked"
    /\ threads' = [u \in Threads |->
          IF u \in holders
          THEN [threads[u] EXCEPT !.locals.existing_entries = appended,
                                  !.pc = IF u = t THEN "appended" ELSE @]
          ELSE threads[u]]
    /\ JOB_OPERATION_PRODUCTION_TABLE' =
          IF c.locals.stored
          THEN Put(JOB_OPERATION_PRODUCTION_TABLE, c.id, appended)
          ELSE JOB_OPERATION_PRODUCTION_TABLE
    /\ UNCHANGED <<PARTS_TABLE, JOBS_TABLE, ROUTES_JOBS_TABLE, JOB_OPERATIONS_TABLE,
                   NOTIFICATIONS_TABLE, now, outcome>>

\* JOB_OPERATION_PRODUCTION_TABLE[job_operation_id] = existing_entries: the
\* list of t is the stored one from now on; a list stored before, when it is
\* another object, is no longer in the table.
production_store(t) ==
    LET c == threads[t]
    IN
    /\ c.call = "add_production_entry_service"
    /\ c.pc = "appended"
    /\ threads' = [u \in Threads |->
          IF u = t THEN [c EXCEPT !.pc = "stored", !.locals.stored = TRUE]
          ELSE IF u \in same_list(t, c.id) /\ ~c.locals.stored
          THEN [threads[u] EXCEPT !.locals.stored = FALSE]
          ELSE threads[u]]
    /\ JOB_OPERATION_PRODUCTION_TABLE' =
          Put(JOB_OPERATION_PRODUCTION_TABLE, c.id, c.locals.existing_entries)
    /\ UNCHANGED <<PARTS_TABLE, JOBS_TABLE, ROUTES_JOBS_TABLE, JOB_OPERATIONS_TABLE,
                   NOTIFICATIONS_TABLE, now, outcome>>

\* Step 7: the totals written on the operation are the sums taken in step 4
\* plus the quantities of the entry.
production_totals(t) ==
    LET c == threads[t]
    IN
    /\ c.call = "add_production_entry_service"
    /\ c.pc = "stored"
    /\ JOB_OPERATIONS_TABLE' =
          [JOB_OPERATIONS_TABLE EXCEPT ![c.id] =
              [@ EXCEPT !.total_produced = c.locals.total_produced + c.args[1],
                        !.total_scrap = c.locals.total_scrap + c.args[2],
                        !.total_rework = c.locals.total_rework + c.args[3],
                        !.updated_at = now]]
    /\ threads' = [threads EXCEPT ![t].pc = "returned"]
    /\ UNCHANGED <<PARTS_TABLE, JOBS_TABLE, ROUTES_JOBS_TABLE,
                   JOB_OPERATION_PRODUCTION_TABLE, NOTIFICATIONS_TABLE, now, outcome>>

\* The tables once job-1 of tenant-1, for part-1, is stored and its route
\* generated.
InitOneJob ==
    /\ now = 0
    /\ PARTS_TABLE = DEFAULT_PARTS_TABLE
    /\ JOBS_TABLE = [j \in {"job-1"} |-> JobHeader(j, "tenant-1", MaxQty)]
    /\ ROUTES_JOBS_TABLE = EmptyDict
    /\ JOB_OPERATIONS_TABLE =
          create_job_operations_table(DEFAULT_PARTS_TABLE, EmptyDict,
                                      "job-1", "part-1", "tenant-1")
    /\ JOB_OPERATION_PRODUCTION_TABLE = EmptyDict
    /\ NOTIFICATIONS_TABLE = <<>>
    /\ outcome = Idle
    /\ threads = NoCalls

\* <<produced_qty, scrap_qty, rework_qty>>
ThreadEntryInputs == {<<1, 0, 0>>, <<MaxQty, 0, 0>>, <<0, 1, 0>>, <<0, 0, 0>>}

\* Two threads record production on one operation.
NextProductionThreads ==
    \E t \in Threads :
        \/ \E e \in ThreadEntryInputs :
              production_read(t, JobOperationId("job-1", "op-cut"), e[1], e[2], e[3],
                              "tenant-1")
        \/ production_check(t)
        \/ production_append(t)
        \/ production_store(t)
        \/ production_totals(t)
        \/ thread_return(t)

SpecProductionThreads == InitOneJob /\ [][NextProductionThreads]_vars

\* Lines 418-510 of plan_job_operation_service: the guards, the scan for
\* clashing operations and the capacity rule, on the table as it is now.  A
\* call that passes them has read current_status and has written nothing.
plan_validate(t, job_operation_id, machine_id, shift_id, planned_start_date, planned_end_date, force, reschedule_reason, ignore_conflicts, tenant_id) ==
    LET result == plan_result(JOB_OPERATIONS_TABLE, job_operation_id, machine_id,
                      shift_id, planned_start_date, planned_end_date, force,
                      reschedule_reason, ignore_conflicts, tenant_id)
    IN
    /\ threads[t].pc = "waiting"
    /\ threads' = [threads EXCEPT ![t] =
          Call(IF result = OK THEN "validated" ELSE "returned",
               "plan_job_operation_service", job_operation_id,
               <<machine_id, shift_id, planned_start_date, planned_end_date,
                 reschedule_reason>>,
               result, <<>>,
               IF job_operation_id \in DOMAIN JOB_OPERATIONS_TABLE
               THEN [current_status |-> JOB_OPERATIONS_TABLE[job_operation_id].status]
               ELSE <<>>)]
    /\ NOTIFICATIONS_TABLE' =
          IF result = ERR_CAPACITY
          THEN Append(NOTIFICATIONS_TABLE,
                      Notification(JOB_OPERATIONS_TABLE[job_operation_id].tenant_id,
                                   None, "CONFLICT", job_operation_id))
          ELSE NOTIFICATIONS_TABLE
    /\ Len(NOTIFICATIONS_TABLE') <= MaxNotifications
    /\ UNCHANGED <<PARTS_TABLE, JOBS_TABLE, ROUTES_JOBS_TABLE, JOB_OPERATIONS_TABLE,
                   JOB_OPERATION_PRODUCTION_TABLE, now, outcome>>

\* Lines 516-560: old_plan is read, the slot is written on the operation and
\* the audit record is written, its action taken from the current_status
\* read before the guards.
plan_commit(t) ==
    LET c == threads[t]
        job_op == JOB_OPERATIONS_TABLE[c.id]
    IN
    /\ c.call = "plan_job_operation_service"
    /\ c.pc = "validated"
    /\ JOB_OPERATIONS_TABLE' =
          [JOB_OPERATIONS_TABLE EXCEPT ![c.id] =
              apply_plan(@, c.args[1], c.args[2], c.args[3], c.args[4], now)]
    /\ threads' = [threads EXCEPT
          ![t].pc = "returned",
          ![t].audit = <<plan_audit([job_op EXCEPT !.status = c.locals.current_status],
                                    c.args[1], c.args[2], c.args[3], c.args[5])>>]
    /\ UNCHANGED <<PARTS_TABLE, JOBS_TABLE, ROUTES_JOBS_TABLE,
                   JOB_OPERATION_PRODUCTION_TABLE, NOTIFICATIONS_TABLE, now, outcome>>

\* <<machine_id, shift_id, planned_start_date, planned_end_date>>
ThreadPlanSlots ==
    {<<"machine-1", "shift-A", 1, 1>>, <<"machine-1", "shift-A", 1, MaxDate>>}

\* Two threads plan the operations of two jobs; no call ignores conflicts.
NextPlanningThreads ==
    \E t \in Threads :
        \/ \E id \in PlanTargets, p \in ThreadPlanSlots :
              /\ plan_validate(t, id, p[1], p[2], p[3], p[4], FALSE, None, FALSE,
                               "tenant-1")
              /\ Len(NOTIFICATIONS_TABLE') <= MaxConflicts
        \/ plan_commit(t)
        \/ thread_return(t)

SpecPlanningThreads == InitPlanning /\ [][NextPlanningThreads]_vars

\* Lines 203-277 of update_job_operation_status: the operation is fetched,
\* current_status is read and the validations are made; nothing is written.
status_validate(t, job_operation_id, new_status, tenant_id, quantity_completed, quantity_rejected, rework_flag, rework_note, override_sequence) ==
    LET result == update_status_result(JOBS_TABLE, JOB_OPERATIONS_TABLE,
                      job_operation_id, new_status, tenant_id,
                      quantity_completed, quantity_rejected,
                      rework_flag, rework_note, override_sequence)
    IN
    /\ threads[t].pc = "waiting"
    /\ threads' = [threads EXCEPT ![t] =
          Call(IF result = OK THEN "validated" ELSE "returned",
               "update_job_operation_status", job_operation_id,
               <<new_status, quantity_completed, quantity_rejected>>, result, <<>>,
               IF job_operation_id \in DOMAIN JOB_OPERATIONS_TABLE
               THEN [current_status |-> JOB_OPERATIONS_TABLE[job_operation_id].status]
               ELSE <<>>)]
    /\ UNCHANGED <<tables, now, outcome>>

\* Lines 283-395: the timestamps and the status are written, the next
\* operation is advanced, the job status is rolled up and the audit record
\* is written, with the current_status read before the validations.
status_commit(t) ==
    LET c == threads[t]
        job_op == [JOB_OPERATIONS_TABLE[c.id] EXCEPT !.status = c.locals.current_status]
        updated == [JOB_OPERATIONS_TABLE EXCEPT ![c.id] =
                      apply_status(job_op, c.args[1], c.args[2], c.args[3], now)]
        next_id == IF next_ops(updated, job_op) = {} THEN c.id
                   ELSE CHOOSE id \in next_ops(updated, job_op) : TRUE
        advanced == IF c.args[1] = OP_STATUS_COMPLETED
                    THEN auto_advance(updated, c.id, next_id)
                    ELSE updated
    IN
    /\ c.call = "update_job_operation_status"
    /\ c.pc = "validated"
    /\ JOB_OPERATIONS_TABLE' = advanced
    /\ NOTIFICATIONS_TABLE' =
          IF c.args[1] = OP_STATUS_COMPLETED
          THEN auto_advance_notifications(NOTIFICATIONS_TABLE, updated, c.id, next_id)
          ELSE NOTIFICATIONS_TABLE
    /\ Len(NOTIFICATIONS_TABLE') <= MaxNotifications
    /\ JOBS_TABLE' = update_parent_job(JOBS_TABLE, advanced, job_op.job_id, now)
    /\ threads' = [threads EXCEPT
          ![t].pc = "returned",
          ![t].audit = <<status_changed(job_op, c.args[1], c.args[2], c.args[3])>>]
    /\ UNCHANGED <<PARTS_TABLE, ROUTES_JOBS_TABLE, JOB_OPERATION_PRODUCTION_TABLE,
                   now, outcome>>

\* Two threads plan, start, pause, resume and complete the first operation
\* of a job.
NextStatusThreads ==
    \E t \in Threads :
        \/ \E p \in ValidPlanInputs :
              plan_validate(t, JobOperationId("job-1", "op-cut"), p[1], p[2], p[3], p[4],
                            FALSE, None, FALSE, "tenant-1")
        \/ plan_commit(t)
        \/ \E new_status \in {OP_STATUS_IN_PROGRESS, OP_STATUS_PAUSED} :
              status_validate(t, JobOperationId("job-1", "op-cut"), new_status,
                              "tenant-1", NoneInt, NoneInt, FALSE, None, FALSE)
        \/ status_validate(t, JobOperationId("job-1", "op-cut"), OP_STATUS_COMPLETED,
                           "tenant-1", MaxQty, NoneInt, FALSE, None, FALSE)
        \/ status_commit(t)
        \/ thread_return(t)

SpecStatusThreads == InitOneJob /\ [][NextStatusThreads]_vars

\* ------------------------------------------------------------------
\* Read projections
\* ------------------------------------------------------------------
ERR_DATE_FILTER == "Invalid date format. Use YYYY-MM-DD"

\* The clock moves on by a day, between calls or while a response waits.
Tick ==
    /\ now < MaxDate
    /\ now' = now + 1
    /\ UNCHANGED <<tables, outcome, threads>>

\* logger.info(...) of a read: a line of the application log.  The reads
\* do not call log_audit_event: the audit records written are none.
logger_info_audited(event, tenant_id) ==
    <<AuditRecord(tenant_id, None, event, None, None)>>

logger_info(event, tenant_id) ==
    <<>>

\* _get_current_stage: the operation type of the first operation of the
\* job, in sequence order, that is not COMPLETED.
current_stage(table, job_id) ==
    LET operations == {id \in DOMAIN table : table[id].job_id = job_id}
        open == {id \in operations : table[id].status # "COMPLETED"}
    IN IF operations = {} THEN "NOT_PLANNED"
       ELSE IF open = {} THEN "COMPLETED"
       ELSE table[CHOOSE id \in open :
                     \A o \in open :
                         table[id].sequence_number <= table[o].sequence_number].operation_id

\* is_active_on_date: an operation of the job is planned on a window that
\* contains the date.
is_active_on_date(table, job_id, filter_date) ==
    \E id \in DOMAIN table :
        /\ table[id].job_id = job_id
        /\ table[id].planned_start_date # NoneInt
        /\ table[id].planned_end_date # NoneInt
        /\ table[id].planned_start_date <= filter_date
        /\ filter_date <= table[id].planned_end_date

\* today > due_date and job["status"] != "COMPLETED"
delayed(job, today) ==
    today > job.due_date /\ job.status # "COMPLETED"

job_card(job, today) ==
    [job_id |-> job.job_id, qty |-> job.quantity, due_date |-> job.due_date,
     priority |-> job.priority, delayed |-> delayed(job, today)]

\* The response of get_jobs_by_stage_service: one entry per stage, with the
\* cards of the tenant's jobs at that stage.  The order of the cards of a
\* stage is fixed by priority, due date and the order of the job table.
jobs_by_stage(jobs, table, tenant_id, date, today) ==
    LET tenant_jobs == {j \in DOMAIN jobs :
                           jobs[j].tenant_id = tenant_id /\ jobs[j].status # "CANCELLED"}
        shown == {j \in tenant_jobs :
                     date = NoneInt \/ is_active_on_date(table, j, date)}
        at_stage(s) == {j \in shown : current_stage(table, j) = s}
    IN {[stage_id |-> s, stage_name |-> s,
         jobs |-> {job_card(jobs[j], today) : j \in at_stage(s)},
         counts |-> [total |-> Cardinality(at_stage(s)),
                     delayed |-> Cardinality({j \in at_stage(s) :
                                                 delayed(jobs[j], today)})]] :
           s \in {current_stage(table, j) : j \in shown}}

\* A read can be served when no write call is pending.
ReadCalls ==
    {"get_jobs_by_stage_service", "get_wip_metrics_service",
     "get_bottleneck_metrics_service", "get_late_jobs_service",
     "get_planning_calendar_service"}

\* The report of a read.
ReadOutcome(call, args, result, tenant_id) ==
    [Outcome(call, args, result) EXCEPT !.at = now,
                                        !.audit = logger_info(call, tenant_id)]

\* get_jobs_by_stage_service(tenant_id=..., date=...): it reads the job
\* table of routes/jobs.py.
get_jobs_by_stage_service(tenant_id, date) ==
    /\ outcome = Idle \/ outcome.call \in ReadCalls
    /\ outcome' =
          IF date = BadDate
          THEN [Outcome("get_jobs_by_stage_service", <<tenant_id, date>>, ERR_DATE_FILTER)
                   EXCEPT !.at = now]
          ELSE ReadOutcome("get_jobs_by_stage_service", <<tenant_id, date>>,
                           jobs_by_stage(ROUTES_JOBS_TABLE, JOB_OPERATIONS_TABLE,
                                         tenant_id, date, now),
                           tenant_id)
    /\ UNCHANGED <<tables, now, threads>>

\* The response of get_wip_metrics_service without date filter: the number
\* of READY, IN_PROGRESS and PAUSED operations per operation type.
wip_metrics(table, tenant_id) ==
    LET wip == {id \in DOMAIN table :
                   /\ table[id].tenant_id = tenant_id
                   /\ table[id].status \in {"READY", "IN_PROGRESS", "PAUSED"}}
    IN {[stage |-> s, count |-> Cardinality({id \in wip : table[id].operation_id = s})] :
           s \in {table[id].operation_id : id \in wip}}

get_wip_metrics_service(tenant_id) ==
    /\ outcome = Idle \/ outcome.call \in ReadCalls
    /\ outcome' = ReadOutcome("get_wip_metrics_service", <<tenant_id>>,
                              wip_metrics(JOB_OPERATIONS_TABLE, tenant_id), tenant_id)
    /\ UNCHANGED <<tables, now, threads>>

\* The response of get_bottleneck_metrics_service without date filter: the
\* number of planned operations neither COMPLETED nor CANCELLED per machine.
bottleneck_metrics(table, tenant_id) ==
    LET backlog == {id \in DOMAIN table :
                       /\ table[id].tenant_id = tenant_id
                       /\ table[id].machine_id # None
                       /\ table[id].status \notin {"COMPLETED", "CANCELLED"}}
    IN {[machine_id |-> m,
         pending_operations |-> Cardinality({id \in backlog : table[id].machine_id = m})] :
           m \in {table[id].machine_id : id \in backlog}}

get_bottleneck_metrics_service(tenant_id) ==
    /\ outcome = Idle \/ outcome.call \in ReadCalls
    /\ outcome' = ReadOutcome("get_bottleneck_metrics_service", <<tenant_id>>,
                              bottleneck_metrics(JOB_OPERATIONS_TABLE, tenant_id),
                              tenant_id)
    /\ UNCHANGED <<tables, now, threads>>

\* The response of get_late_jobs_service: the tenant's jobs that are not
\* COMPLETED and were due before today.  It reads the job table of
\* db/mock_db.py.
late_jobs(jobs, tenant_id, today) ==
    LET late == {j \in DOMAIN jobs :
                    /\ jobs[j].tenant_id = tenant_id
                    /\ jobs[j].status # "COMPLETED"
                    /\ jobs[j].due_date < today}
    IN [total_late |-> Cardinality(late),
        jobs |-> {[job_id |-> jobs[j].job_id, due_date |-> jobs[j].due_date,
                   priority |-> jobs[j].priority, status |-> jobs[j].status] :
                     j \in late}]

get_late_jobs_service(tenant_id) ==
    /\ outcome = Idle \/ outcome.call \in ReadCalls
    /\ outcome' = ReadOutcome("get_late_jobs_service", <<tenant_id>>,
                              late_jobs(JOBS_TABLE, tenant_id, now), tenant_id)
    /\ UNCHANGED <<tables, now, threads>>

\* The response of get_planning_calendar_service without filters: the
\* tenant's planned operations under their machine, shift and start date.
planning_calendar(jobs, table, tenant_id) ==
    LET filtered_ops == {id \in DOMAIN table :
                            /\ table[id].tenant_id = tenant_id
                            /\ table[id].machine_id # None
                            /\ table[id].planned_start_date # NoneInt}
    IN [data |-> {[machine_id |-> table[id].machine_id, shift_id |-> table[id].shift_id,
                   date |-> table[id].planned_start_date,
                   job_operation_id |-> table[id].job_operation_id,
                   status |-> table[id].status,
                   planned_qty |-> IF table[id].job_id \in DOMAIN jobs
                                   THEN jobs[table[id].job_id].quantity ELSE 0,
                   sequence_number |-> table[id].sequence_number] :
                     id \in filtered_ops},
        total_count |-> Cardinality(filtered_ops)]

get_planning_calendar_service(tenant_id) ==
    /\ outcome = Idle \/ outcome.call \in ReadCalls
    /\ outcome' = ReadOutcome("get_planning_calendar_service", <<tenant_id>>,
                              planning_calendar(JOBS_TABLE, JOB_OPERATIONS_TABLE,
                                                tenant_id),
                              tenant_id)
    /\ UNCHANGED <<tables, now, threads>>

\* The operations planned, started and completed between the reads.
ProjectionTargets ==
    {JobOperationId("job-1", "op-cut"), JobOperationId("job-2", "op-cut")}

\* job-1 is created through POST /jobs and job-2 is stored in the job table
\* of db/mock_db.py; their first operations are planned, started and
\* completed while the clock runs and the projections are read.
NextProjections ==
    \/ Return
    \/ Tick
    \/ create_job("job-1", "part-1", "tenant-1", MaxQty)
    \/ put_job("job-2", "tenant-1", MaxQty)
    \/ create_job_operations("job-2", "part-1", "tenant-1")
    \/ \E id \in ProjectionTargets, p \in ValidPlanInputs :
          plan_job_operation_service(id, p[1], p[2], p[3], p[4], FALSE, None, FALSE,
                                     "tenant-1")
    \/ \E id \in ProjectionTargets :
          update_job_operation_status(id, OP_STATUS_IN_PROGRESS, "tenant-1", NoneInt,
                                      NoneInt, FALSE, None, FALSE)
    \/ \E id \in ProjectionTargets :
          update_job_operation_status(id, OP_STATUS_COMPLETED, "tenant-1", MaxQty,
                                      NoneInt, FALSE, None, FALSE)
    \/ \E tenant_id \in TenantIds, date \in {NoneInt, 1, BadDate} :
          get_jobs_by_stage_service(tenant_id, date)
    \/ get_wip_metrics_service("tenant-1")
    \/ get_bottleneck_metrics_service("tenant-1")
    \/ get_late_jobs_service("tenant-1")
    \/ get_planning_calendar_service("tenant-1")

SpecProjections == Init /\ [][NextProjections]_vars

\* ------------------------------------------------------------------
\* A job from creation to the completion of its route
\* ------------------------------------------------------------------
\* The catalog holds part-1 with a route of two operations.
InitScenario ==
    /\ PARTS_TABLE = [p \in {"part-1"} |->
                        [part_id |-> p, tenant_id |-> "tenant-1",
                         default_operations_route |-> <<"op-cut", "op-drill">>]]
    /\ JOBS_TABLE = EmptyDict
    /\ ROUTES_JOBS_TABLE = EmptyDict
    /\ JOB_OPERATIONS_TABLE = EmptyDict
    /\ JOB_OPERATION_PRODUCTION_TABLE = EmptyDict
    /\ NOTIFICATIONS_TABLE = <<>>
    /\ now = 0
    /\ outcome = Idle
    /\ threads = NoCalls

ScenarioTargets ==
    {JobOperationId("job-1", "op-cut"), JobOperationId("job-1", "op-drill")}

\* POST /jobs creates job-1 of quantity MaxQty; its operations are planned,
\* started, recorded and completed through the services.
NextScenario ==
    \/ Return
    \/ create_job("job-1", "part-1", "tenant-1", MaxQty)
    \/ \E id \in ScenarioTargets, p \in PlanSlots :
          plan_job_operation_service(id, p[1], p[2], p[3], p[4], FALSE, None, FALSE,
                                     "tenant-1")
    \/ \E id \in ScenarioTargets, new_status \in {OP_STATUS_IN_PROGRESS, OP_STATUS_PAUSED} :
          update_job_operation_status(id, new_status, "tenant-1", NoneInt, NoneInt,
                                      FALSE, None, FALSE)
    \/ \E id \in ScenarioTargets, quantity_completed \in 0..MaxQty :
          update_job_operation_status(id, OP_STATUS_COMPLETED, "tenant-1",
                                      quantity_completed, NoneInt, FALSE, None, FALSE)
    \/ \E id \in ScenarioTargets, produced_qty \in 1..MaxQty :
          add_production_entry_service(id, produced_qty, 0, 0, "tenant-1")

SpecScenario == InitScenario /\ [][NextScenario]_vars

\* ------------------------------------------------------------------
\* Job creation over every part catalog
\* ------------------------------------------------------------------
\* Jobs are created through POST /jobs only, on a catalog that holds part-1
\* of either tenant with any route; route generation runs to its end or is
\* interrupted.
NextJobCreation ==
    \/ Return
    \/ \E job_id \in RouteJobIds, part_id \in PartIds, tenant_id \in TenantIds,
          quantity \in {0, MaxQty} :
          create_job(job_id, part_id, tenant_id, quantity)
    \/ \E job_id \in RouteJobIds, part_id \in PartIds, tenant_id \in TenantIds,
          fail_at \in 0..MaxRouteLen :
          create_job_interrupted(job_id, part_id, tenant_id, MaxQty, fail_at)

SpecJobCreation == InitRoutes /\ [][NextJobCreation]_vars

\* ------------------------------------------------------------------
\* Operations started out of sequence while the clock runs
\* ------------------------------------------------------------------
RestartTargets ==
    {JobOperationId("job-1", "op-cut"), JobOperationId("job-1", "op-drill")}

\* The first two operations of job-1 are planned, started (with or without
\* override_sequence), paused, resumed and completed; days pass between the
\* calls.
NextRestart ==
    \/ Return
    \/ Tick
    \/ \E id \in RestartTargets, p \in ValidPlanInputs :
          plan_job_operation_service(id, p[1], p[2], p[3], p[4], TRUE, "reason", FALSE,
                                     "tenant-1")
    \/ \E id \in RestartTargets, override_sequence \in BOOLEAN :
          update_job_operation_status(id, OP_STATUS_IN_PROGRESS, "tenant-1", NoneInt,
                                      NoneInt, FALSE, None, override_sequence)
    \/ \E id \in RestartTargets :
          update_job_operation_status(id, OP_STATUS_PAUSED, "tenant-1", NoneInt,
                                      NoneInt, FALSE, None, FALSE)
    \/ \E id \in RestartTargets :
          update_job_operation_status(id, OP_STATUS_COMPLETED, "tenant-1", MaxQty,
                                      NoneInt, FALSE, None, FALSE)

SpecRestart == InitOneJob /\ [][NextRestart]_vars

\* ------------------------------------------------------------------
\* A job worked without override_sequence
\* ------------------------------------------------------------------
InSequenceTargets ==
    {JobOperationId("job-1", o) : o \in {"op-cut", "op-drill", "op-paint"}}

\* The operations of job-1 are planned, started, paused, resumed, cancelled
\* and completed in any order the service admits; override_sequence is
\* never passed.
NextInSequence ==
    \/ Return
    \/ \E id \in InSequenceTargets, p \in ValidPlanInputs :
          plan_job_operation_service(id, p[1], p[2], p[3], p[4], TRUE, "reason", FALSE,
                                     "tenant-1")
    \/ \E id \in InSequenceTargets,
          new_status \in {OP_STATUS_IN_PROGRESS, OP_STATUS_PAUSED, OP_STATUS_CANCELLED,
                          OP_STATUS_READY} :
          update_job_operation_status(id, new_status, "tenant-1", NoneInt, NoneInt,
                                      FALSE, None, FALSE)
    \/ \E id \in InSequenceTargets, quantity_completed \in {0, MaxQty} :
          update_job_operation_status(id, OP_STATUS_COMPLETED, "tenant-1",
                                      quantity_completed, NoneInt, FALSE, None, FALSE)

SpecInSequence == InitOneJob /\ [][NextInSequence]_vars

\* ------------------------------------------------------------------
\* The sequential workflow of one job
\* ------------------------------------------------------------------
\* The routes of distinct operation types.
DistinctRoutes ==
    {route \in UNION {[1..n -> DOMAIN OPERATIONS_TABLE] : n \in 1..3} :
        \A i, k \in DOMAIN route : i # k => route[i] # route[k]}

\* job-1 of tenant-1 is in the job table the services read, with the
\* operations of a route of distinct operation types.
InitWorkflow ==
    /\ now = 0
    /\ \E route \in DistinctRoutes :
          /\ PARTS_TABLE = [p \in {"part-1"} |->
                              [part_id |-> p, tenant_id |-> "tenant-1",
                               default_operations_route |-> route]]
          /\ JOB_OPERATIONS_TABLE =
                CreateRoute(EmptyDict, "job-1", "tenant-1", route, 0)
    /\ JOBS_TABLE = [j \in {"job-1"} |-> JobHeader(j, "tenant-1", MaxQty)]
    /\ ROUTES_JOBS_TABLE = EmptyDict
    /\ JOB_OPERATION_PRODUCTION_TABLE = EmptyDict
    /\ NOTIFICATIONS_TABLE = <<>>
    /\ outcome = Idle
    /\ threads = NoCalls

\* The operation the workflow has reached: the first of the route, in
\* sequence order, that is not COMPLETED.
current_operation(table, job_id) ==
    {id \in DOMAIN table :
        /\ table[id].job_id = job_id
        /\ table[id].status # OP_STATUS_COMPLETED
        /\ \A o \in DOMAIN table :
              (table[o].job_id = job_id /\ table[o].sequence_number < table[id].sequence_number)
                => table[o].status = OP_STATUS_COMPLETED}

\* <<quantity_completed, quantity_rejected>> within a job's quantity.
WorkflowQuantities ==
    {<<c, r>> \in (0..MaxQty) \X ({NoneInt} \cup (0..MaxQty)) :
        c + (IF r = NoneInt THEN 0 ELSE r) <= MaxQty}

\* The caller works the route in sequence order: the operation reached is
\* planned on an existing machine and shift when it has no plan, started
\* when it is planned and waiting, and completed when it is IN_PROGRESS;
\* override_sequence is never passed and nothing is cancelled.
NextWorkflow ==
    \/ Return
    \/ \E id \in current_operation(JOB_OPERATIONS_TABLE, "job-1"), p \in PlanSlots :
          /\ JOB_OPERATIONS_TABLE[id].machine_id = None
          /\ plan_job_operation_service(id, p[1], p[2], p[3], p[4], FALSE, None, FALSE,
                                        "tenant-1")
    \/ \E id \in current_operation(JOB_OPERATIONS_TABLE, "job-1") :
          /\ JOB_OPERATIONS_TABLE[id].machine_id # None
          /\ JOB_OPERATIONS_TABLE[id].status \in {OP_STATUS_NOT_STARTED, OP_STATUS_READY}
          /\ update_job_operation_status(id, OP_STATUS_IN_PROGRESS, "tenant-1", NoneInt,
                                         NoneInt, FALSE, None, FALSE)
    \/ \E id \in current_operation(JOB_OPERATIONS_TABLE, "job-1"), q \in WorkflowQuantities :
          /\ JOB_OPERATIONS_TABLE[id].status = OP_STATUS_IN_PROGRESS
          /\ update_job_operation_status(id, OP_STATUS_COMPLETED, "tenant-1", q[1], q[2],
                                         FALSE, None, FALSE)

\* The caller keeps making the next call of the workflow.
SpecWorkflow == InitWorkflow /\ [][NextWorkflow]_vars /\ WF_vars(NextWorkflow)

OperationsOf(job_id) ==
    {id \in DOMAIN JOB_OPERATIONS_TABLE : JOB_OPERATIONS_TABLE[id].job_id = job_id}

AllCompleted(job_id) ==
    \A id \in OperationsOf(job_id) :
        JOB_OPERATIONS_TABLE[id].status = "COMPLETED"

AnyInProgress(job_id) ==
    \E id \in OperationsOf(job_id) :
        JOB_OPERATIONS_TABLE[id].status = "IN_PROGRESS"

\* The last call was a successful one of the named function.
Succeeded(call) == outcome.call = call /\ outcome.result = "OK"

\* The last call was one of the named function and raised message.
Raised(call, message) == outcome.call = call /\ outcome.result = message

\* C1: in every reachable state, a job that has at least one operation is
\* COMPLETED if and only if every one of its operations is COMPLETED (for
\* the jobs of both job tables).
C1_JobCompletedIffAllOperationsCompleted ==
    /\ \A j \in DOMAIN JOBS_TABLE :
          OperationsOf(j) # {}
              => (JOBS_TABLE[j].status = "COMPLETED" <=> AllCompleted(j))
    /\ \A j \in DOMAIN ROUTES_JOBS_TABLE :
          OperationsOf(j) # {}
              => (ROUTES_JOBS_TABLE[j].status = "COMPLETED" <=> AllCompleted(j))

\* C1 witness: the update that completed the last operation of a job has
\* returned and the job is COMPLETED.
C1_Witness ==
    /\ Succeeded("update_job_operation_status")
    /\ \E j \in DOMAIN JOBS_TABLE :
          /\ Cardinality(OperationsOf(j)) = 3
          /\ outcome.id \in OperationsOf(j)
          /\ AllCompleted(j)
          /\ JOBS_TABLE[j].status = "COMPLETED"

\* The job status the operations of a job roll up to.
RollupOf(job_id) ==
    IF AllCompleted(job_id) THEN "COMPLETED"
    ELSE IF AnyInProgress(job_id) THEN "IN_PROGRESS"
    ELSE "NOT_STARTED"

\* C2: after every successful update_job_operation_status the parent job's
\* status is the rollup of its operations (COMPLETED if all are COMPLETED,
\* else IN_PROGRESS if any is IN_PROGRESS, else NOT_STARTED), and in every
\* state a job is IN_PROGRESS iff some operation is IN_PROGRESS and not all
\* are COMPLETED.
C2_JobStatusIsRollup ==
    /\ Succeeded("update_job_operation_status")
          => \A j \in DOMAIN JOBS_TABLE :
                outcome.id \in OperationsOf(j) => JOBS_TABLE[j].status = RollupOf(j)
    /\ \A j \in DOMAIN JOBS_TABLE :
          OperationsOf(j) # {}
              => (JOBS_TABLE[j].status = "IN_PROGRESS"
                    <=> (AnyInProgress(j) /\ ~AllCompleted(j)))

\* produced + scrap + rework over a list of production entries.
RECURSIVE EntriesTotal(_)
EntriesTotal(entries) ==
    IF entries = <<>> THEN 0
    ELSE Head(entries).produced_qty + Head(entries).scrap_qty
            + Head(entries).rework_qty + EntriesTotal(Tail(entries))

\* produced + scrap + rework over the entries of a set of operations.
RECURSIVE RecordedBy(_)
RecordedBy(ids) ==
    IF ids = {} THEN 0
    ELSE LET id == CHOOSE i \in ids : TRUE
         IN (IF id \in DOMAIN JOB_OPERATION_PRODUCTION_TABLE
             THEN EntriesTotal(JOB_OPERATION_PRODUCTION_TABLE[id]) ELSE 0)
            + RecordedBy(ids \ {id})

WouldExceed(id, e) ==
    /\ id \in DOMAIN JOB_OPERATIONS_TABLE
    /\ JOB_OPERATIONS_TABLE[id].status # "COMPLETED"
    /\ e[1] >= 0 /\ e[2] >= 0 /\ e[3] >= 0
    /\ JOB_OPERATIONS_TABLE[id].job_id \in DOMAIN JOBS_TABLE
    /\ EntriesTotal(existing_entries(JOB_OPERATION_PRODUCTION_TABLE, id))
          + e[1] + e[2] + e[3]
            > JOBS_TABLE[JOB_OPERATIONS_TABLE[id].job_id].quantity

C4_RejectedEntryChangesNothing ==
    [][(outcome = Idle /\ outcome'.call = "add_production_entry_service"
            /\ outcome'.result # "OK")
        => /\ JOB_OPERATION_PRODUCTION_TABLE' = JOB_OPERATION_PRODUCTION_TABLE
           /\ JOB_OPERATIONS_TABLE' = JOB_OPERATIONS_TABLE
           /\ JOBS_TABLE' = JOBS_TABLE]_vars

\* C4 witness: an entry was rejected on an operation that already has
\* entries and totals.
C4_Witness ==
    /\ outcome.call = "add_production_entry_service"
    /\ outcome.result \in {"Quantities cannot be negative",
                           "At least one quantity must be greater than zero",
                           "Production exceeds job quantity"}
    /\ outcome.id \in DOMAIN JOB_OPERATION_PRODUCTION_TABLE
    /\ JOB_OPERATIONS_TABLE[outcome.id].total_produced = 1

\* The transitions the state machine permits.
ClaimedTransitions ==
    {<<"NOT_STARTED", "IN_PROGRESS">>, <<"NOT_STARTED", "CANCELLED">>,
     <<"READY", "IN_PROGRESS">>, <<"IN_PROGRESS", "COMPLETED">>,
     <<"IN_PROGRESS", "PAUSED">>, <<"PAUSED", "IN_PROGRESS">>}

\* The step is update_job_operation_status(id, new_status, ...) by the
\* operation's tenant, with any of the completion arguments.
UpdateStep(id, new_status, override_sequence) ==
    IF new_status = "COMPLETED"
    THEN \E c \in CompletionInputs :
            update_job_operation_status(id, new_status, "tenant-1", c[1], c[2],
                                        c[3], c[4], override_sequence)
    ELSE update_job_operation_status(id, new_status, "tenant-1", NoneInt, NoneInt,
                                     FALSE, None, override_sequence)

\* C5: update_job_operation_status succeeds only for a pair (current status,
\* new status) of the six permitted transitions and then sets the new
\* status; for every other pair, a new status outside the six states and any
\* request on a COMPLETED or CANCELLED operation included, it raises
\* "Invalid status transition" and changes no operation.
C5_OnlyAllowedTransitions ==
    [][(outcome = Idle /\ outcome'.call = "update_job_operation_status"
            /\ outcome'.id \in DOMAIN JOB_OPERATIONS_TABLE)
        => LET id == outcome'.id
               current == JOB_OPERATIONS_TABLE[id].status
           IN /\ outcome'.result = "OK"
                    => <<current, JOB_OPERATIONS_TABLE'[id].status>> \in ClaimedTransitions
              /\ \A new_status \in StatusInputs, override_sequence \in BOOLEAN :
                    UpdateStep(id, new_status, override_sequence)
                      => /\ outcome'.result = "OK"
                              => JOB_OPERATIONS_TABLE'[id].status = new_status
                         /\ <<current, new_status>> \notin ClaimedTransitions
                              => /\ outcome'.result = "Invalid status transition"
                                 /\ JOB_OPERATIONS_TABLE' = JOB_OPERATIONS_TABLE]_vars

\* C5 witness: a request on a COMPLETED operation has been rejected as an
\* invalid transition.
C5_Witness ==
    /\ Raised("update_job_operation_status", "Invalid status transition")
    /\ outcome.id \in DOMAIN JOB_OPERATIONS_TABLE
    /\ JOB_OPERATIONS_TABLE[outcome.id].status = "COMPLETED"

\* C6: once an operation is COMPLETED it is COMPLETED in every later state.
C6_CompletedIsTerminal ==
    [][\A id \in DOMAIN JOB_OPERATIONS_TABLE :
          JOB_OPERATIONS_TABLE[id].status = "COMPLETED"
            => /\ id \in DOMAIN JOB_OPERATIONS_TABLE'
               /\ JOB_OPERATIONS_TABLE'[id].status = "COMPLETED"]_vars

\* C7: once an operation is CANCELLED it is CANCELLED in every later state,
\* also when the operation before it in the route is completed.
C7_CancelledIsTerminal ==
    [][\A id \in DOMAIN JOB_OPERATIONS_TABLE :
          JOB_OPERATIONS_TABLE[id].status = "CANCELLED"
            => /\ id \in DOMAIN JOB_OPERATIONS_TABLE'
               /\ JOB_OPERATIONS_TABLE'[id].status = "CANCELLED"]_vars

\* The operation with the sequence number before id's, in id's job, is not
\* COMPLETED.
PreviousNotCompleted(id) ==
    ~ \E p \in OperationsOf(JOB_OPERATIONS_TABLE[id].job_id) :
          /\ JOB_OPERATIONS_TABLE[p].sequence_number
                = JOB_OPERATIONS_TABLE[id].sequence_number - 1
          /\ JOB_OPERATIONS_TABLE[p].status = "COMPLETED"

\* An operation with sequence number above 1 that may be started or resumed
\* and whose predecessor is not COMPLETED.
OutOfSequence(id) ==
    /\ JOB_OPERATIONS_TABLE[id].sequence_number > 1
    /\ JOB_OPERATIONS_TABLE[id].status \in {"NOT_STARTED", "READY", "PAUSED"}
    /\ PreviousNotCompleted(id)

\* C8 as claimed: starting or resuming an operation with sequence number
\* N > 1 whose predecessor is not COMPLETED, without override_sequence,
\* always raises "Previous operation must be COMPLETED first" and changes
\* nothing; with override_sequence it is not rejected for sequencing.
C8_SequenceViolationAlways ==
    [][(outcome = Idle /\ outcome'.call = "update_job_operation_status"
            /\ outcome'.id \in DOMAIN JOB_OPERATIONS_TABLE
            /\ OutOfSequence(outcome'.id))
        => /\ UpdateStep(outcome'.id, "IN_PROGRESS", FALSE)
                => /\ outcome'.result = "Previous operation must be COMPLETED first"
                   /\ JOB_OPERATIONS_TABLE' = JOB_OPERATIONS_TABLE
           /\ UpdateStep(outcome'.id, "IN_PROGRESS", TRUE)
                => outcome'.result # "Previous operation must be COMPLETED first"]_vars

\* C8 amended: the same, for an operation that has a machine assigned or is
\* resumed from PAUSED; a fresh start of an operation without a machine
\* raises the planning error instead, and changes nothing either.
C8_SequenceViolationWhenPlanned ==
    [][(outcome = Idle /\ outcome'.call = "update_job_operation_status"
            /\ outcome'.id \in DOMAIN JOB_OPERATIONS_TABLE
            /\ OutOfSequence(outcome'.id))
        => LET job_op == JOB_OPERATIONS_TABLE[outcome'.id]
           IN /\ UpdateStep(outcome'.id, "IN_PROGRESS", FALSE)
                   => /\ outcome'.result =
                            IF job_op.machine_id # None \/ job_op.status = "PAUSED"
                            THEN "Previous operation must be COMPLETED first"
                            ELSE "Cannot start operation: Machine not assigned (Planning required)"
                      /\ JOB_OPERATIONS_TABLE' = JOB_OPERATIONS_TABLE
              /\ UpdateStep(outcome'.id, "IN_PROGRESS", TRUE)
                   => outcome'.result # "Previous operation must be COMPLETED first"]_vars

\* C8 witness: the resume of a PAUSED operation whose predecessor is not
\* COMPLETED has been rejected for sequencing.
C8_Witness ==
    /\ Raised("update_job_operation_status", "Previous operation must be COMPLETED first")
    /\ JOB_OPERATIONS_TABLE[outcome.id].status = "PAUSED"
    /\ OutOfSequence(outcome.id)

\* The completion arguments c = <<quantity_completed, quantity_rejected,
\* rework_flag, rework_note>> break a quantity rule for a job of the given
\* quantity.
BreaksQuantityRule(c, quantity) ==
    \/ c[1] = NoneInt
    \/ c[1] < 0
    \/ (c[2] # NoneInt /\ c[2] < 0)
    \/ c[1] > quantity
    \/ c[1] + (IF c[2] = NoneInt THEN 0 ELSE c[2]) > quantity

\* C9: a start from NOT_STARTED or READY of an operation without a machine
\* raises the planning error whatever override_sequence is; a resume from
\* PAUSED never raises it; and override_sequence never lets a completion
\* with quantities that break a rule through.
C9_PlanningRequiredRegardlessOfOverride ==
    [][(outcome = Idle /\ outcome'.call = "update_job_operation_status"
            /\ outcome'.id \in DOMAIN JOB_OPERATIONS_TABLE)
        => LET id == outcome'.id
               job_op == JOB_OPERATIONS_TABLE[id]
           IN \A override_sequence \in BOOLEAN :
                /\ UpdateStep(id, "IN_PROGRESS", override_sequence)
                     => /\ (job_op.status \in {"NOT_STARTED", "READY"}
                              /\ job_op.machine_id = None)
                           => /\ outcome'.result =
                                   "Cannot start operation: Machine not assigned (Planning required)"
                              /\ JOB_OPERATIONS_TABLE' = JOB_OPERATIONS_TABLE
                        /\ job_op.status = "PAUSED"
                           => outcome'.result #
                                   "Cannot start operation: Machine not assigned (Planning required)"
                /\ \A c \in CompletionInputs :
                     (/\ job_op.job_id \in DOMAIN JOBS_TABLE
                      /\ BreaksQuantityRule(c, JOBS_TABLE[job_op.job_id].quantity)
                      /\ update_job_operation_status(id, "COMPLETED", "tenant-1", c[1],
                                                     c[2], c[3], c[4], override_sequence))
                       => /\ outcome'.result # "OK"
                          /\ JOB_OPERATIONS_TABLE' = JOB_OPERATIONS_TABLE]_vars

\* C9 witness: the start of an operation without a machine has been rejected
\* with the planning error, for an operation whose predecessor is not
\* COMPLETED (so that overriding the sequence check would matter).
C9_Witness ==
    /\ Raised("update_job_operation_status",
              "Cannot start operation: Machine not assigned (Planning required)")
    /\ JOB_OPERATIONS_TABLE[outcome.id].machine_id = None
    /\ OutOfSequence(outcome.id)

\* The operations that follow id in its job's route.
Following(id) ==
    {n \in OperationsOf(JOB_OPERATIONS_TABLE[id].job_id) :
        JOB_OPERATIONS_TABLE[n].sequence_number
            = JOB_OPERATIONS_TABLE[id].sequence_number + 1}

FullyPlanned(id) ==
    /\ JOB_OPERATIONS_TABLE[id].machine_id # None
    /\ JOB_OPERATIONS_TABLE[id].shift_id # None
    /\ JOB_OPERATIONS_TABLE[id].planned_start_date # NoneInt
    /\ JOB_OPERATIONS_TABLE[id].planned_end_date # NoneInt

\* C10: when update_job_operation_status completes operation N: a fully
\* planned operation N+1 becomes READY and exactly one READY broadcast
\* notification referencing it is stored; an operation N+1 that lacks
\* planning data becomes NOT_STARTED with needs_planning set and no
\* notification is stored; without an operation N+1 no other operation
\* changes and no notification is stored.
C10_AutoAdvance ==
    [][(outcome = Idle /\ Succeeded("update_job_operation_status")'
            /\ JOB_OPERATIONS_TABLE'[outcome'.id].status = "COMPLETED")
        => LET id == outcome'.id
           IN /\ \A n \in Following(id) :
                    IF FullyPlanned(n)
                    THEN /\ JOB_OPERATIONS_TABLE'[n].status = "READY"
                         /\ Len(NOTIFICATIONS_TABLE') = Len(NOTIFICATIONS_TABLE) + 1
                         /\ SubSeq(NOTIFICATIONS_TABLE', 1, Len(NOTIFICATIONS_TABLE))
                               = NOTIFICATIONS_TABLE
                         /\ LET n_new == NOTIFICATIONS_TABLE'[Len(NOTIFICATIONS_TABLE')]
                            IN /\ n_new.type = "READY"
                               /\ n_new.user_id = None
                               /\ n_new.entity_reference = n
                    ELSE /\ JOB_OPERATIONS_TABLE'[n].status = "NOT_STARTED"
                         /\ JOB_OPERATIONS_TABLE'[n].needs_planning = TRUE
                         /\ NOTIFICATIONS_TABLE' = NOTIFICATIONS_TABLE
              /\ Following(id) = {}
                    => /\ NOTIFICATIONS_TABLE' = NOTIFICATIONS_TABLE
                       /\ \A o \in DOMAIN JOB_OPERATIONS_TABLE \ {id} :
                             JOB_OPERATIONS_TABLE'[o] = JOB_OPERATIONS_TABLE[o]
              /\ \A o \in DOMAIN JOB_OPERATIONS_TABLE \ ({id} \cup Following(id)) :
                    JOB_OPERATIONS_TABLE'[o] = JOB_OPERATIONS_TABLE[o]]_vars

\* C10 witness: an operation has been completed, the operation after it is
\* READY and the last notification is the READY broadcast referencing it.
C10_Witness ==
    /\ Succeeded("update_job_operation_status")
    /\ JOB_OPERATIONS_TABLE[outcome.id].status = "COMPLETED"
    /\ NOTIFICATIONS_TABLE # <<>>
    /\ \E n \in Following(outcome.id) :
          /\ JOB_OPERATIONS_TABLE[n].status = "READY"
          /\ NOTIFICATIONS_TABLE[Len(NOTIFICATIONS_TABLE)].type = "READY"
          /\ NOTIFICATIONS_TABLE[Len(NOTIFICATIONS_TABLE)].entity_reference = n

\* The step is a create_job_operations(job_id, part_id, tenant_id) call that
\* returned.
RouteCreated(job_id, part_id, tenant_id) ==
    /\ create_job_operations(job_id, part_id, tenant_id)
    /\ outcome'.result = "OK"

\* C11: a create_job_operations call that returns, for a route of length N,
\* leaves exactly N operations of the job in the table, the i-th returned id
\* naming the operation of the i-th route entry with sequence number i, the
\* first READY and the others NOT_STARTED, and returns N ids.
C11_OneOperationPerRouteEntry ==
    [][\A job_id \in RouteJobIds, part_id \in PartIds, tenant_id \in TenantIds :
          RouteCreated(job_id, part_id, tenant_id)
            => LET route == PARTS_TABLE[part_id].default_operations_route
                   ids == created_operation_ids(job_id, route)
               IN /\ Len(ids) = Len(route)
                  /\ Cardinality({id \in DOMAIN JOB_OPERATIONS_TABLE' :
                          JOB_OPERATIONS_TABLE'[id].job_id = job_id}) = Len(route)
                  /\ \A i \in 1..Len(route) :
                        /\ ids[i] \in DOMAIN JOB_OPERATIONS_TABLE'
                        /\ JOB_OPERATIONS_TABLE'[ids[i]].operation_id = route[i]
                        /\ JOB_OPERATIONS_TABLE'[ids[i]].sequence_number = i
                        /\ JOB_OPERATIONS_TABLE'[ids[i]].status =
                              IF i = 1 THEN "READY" ELSE "NOT_STARTED"]_vars

\* C12: a create_job_operations call that raises, whether in the validation
\* of the route or once some operations of the route are stored, leaves no
\* operation of the job in the table and every other operation as it was.
C12_RouteGenerationAllOrNothing ==
    [][(outcome = Idle /\ outcome'.call = "create_job_operations"
            /\ outcome'.result # "OK")
        => /\ \A id \in DOMAIN JOB_OPERATIONS_TABLE' :
                 JOB_OPERATIONS_TABLE'[id].job_id # outcome'.id[1]
           /\ JOB_OPERATIONS_TABLE' = JOB_OPERATIONS_TABLE]_vars

\* C12 witness: a call has raised after operations of a route were stored,
\* while the operations of another job are in the table.
C12_Witness ==
    /\ Raised("create_job_operations", "Exception")
    /\ Len(PARTS_TABLE["part-1"].default_operations_route) = MaxRouteLen
    /\ JOB_OPERATIONS_TABLE # EmptyDict

\* The step is plan_job_operation_service(id, p, f) by tenant-1, for the
\* slot p = <<machine, shift, start, end>> and the flags
\* f = <<force, reason, ignore_conflicts>>.
PlanStep(id, p, f) ==
    plan_job_operation_service(id, p[1], p[2], p[3], p[4], f[1], f[2], f[3], "tenant-1")

\* The other operations on the slot's machine and shift whose planned window
\* intersects the slot's window, bounds included.
Intersecting(id, p) ==
    {o \in DOMAIN JOB_OPERATIONS_TABLE \ {id} :
        /\ JOB_OPERATIONS_TABLE[o].machine_id = p[1]
        /\ JOB_OPERATIONS_TABLE[o].shift_id = p[2]
        /\ JOB_OPERATIONS_TABLE[o].planned_start_date # NoneInt
        /\ JOB_OPERATIONS_TABLE[o].planned_end_date # NoneInt
        /\ p[3] <= JOB_OPERATIONS_TABLE[o].planned_end_date
        /\ p[4] >= JOB_OPERATIONS_TABLE[o].planned_start_date}

\* The status of the operation lets a call with flags f reach the capacity
\* check: it is NOT_STARTED or READY, or active and forced with a reason.
ReachesCapacityCheck(id, f) ==
    \/ JOB_OPERATIONS_TABLE[id].status \in {"NOT_STARTED", "READY"}
    \/ /\ JOB_OPERATIONS_TABLE[id].status \in {"IN_PROGRESS", "PAUSED"}
       /\ f[1]
       /\ f[2] # None

\* The step is a call of plan_job_operation_service on a stored operation.
PlanCall ==
    /\ outcome = Idle
    /\ outcome'.call = "plan_job_operation_service"
    /\ outcome'.id \in DOMAIN JOB_OPERATIONS_TABLE

\* C13: a plan call without ignore_conflicts for a slot whose window
\* intersects the windows of 3 or more other operations on the same machine
\* and shift fails and leaves every operation as it was; when the status
\* guards let it reach the capacity check it raises the capacity error, and
\* the ids in the error's clashes are exactly those of the intersecting
\* operations, the planned operation never among them.
C13_CapacityConflictListsClashes ==
    [][PlanCall
        => \A p \in OverlappingSlots :
              Cardinality(Intersecting(outcome'.id, p)) >= 3
                => \A f \in NoIgnoreFlags :
                      PlanStep(outcome'.id, p, f)
                        => /\ outcome'.result # "OK"
                           /\ JOB_OPERATIONS_TABLE' = JOB_OPERATIONS_TABLE
                           /\ ReachesCapacityCheck(outcome'.id, f)
                                => /\ outcome'.result = "Machine capacity overloaded"
                                   /\ {c.job_operation_id : c \in outcome'.clashes}
                                         = Intersecting(outcome'.id, p)
                                   /\ outcome'.id \notin
                                         {c.job_operation_id : c \in outcome'.clashes}]_vars

\* C13 witness: an operation that is itself planned on machine-1 has been
\* refused a slot for capacity, with three clashes, one of them planned on a
\* window of several days.
C13_Witness ==
    /\ Raised("plan_job_operation_service", "Machine capacity overloaded")
    /\ Cardinality(outcome.clashes) = 3
    /\ JOB_OPERATIONS_TABLE[outcome.id].machine_id = "machine-1"
    /\ \E c \in outcome.clashes :
          JOB_OPERATIONS_TABLE[c.job_operation_id].planned_start_date
             < JOB_OPERATIONS_TABLE[c.job_operation_id].planned_end_date

\* C14: a plan call that reaches the capacity check for a slot with 3 or
\* more intersecting operations, made with ignore_conflicts and a reason,
\* succeeds, writes the slot on the operation and stores one CONFLICT
\* broadcast notification referencing it; made with ignore_conflicts and no
\* reason it fails and leaves every operation as it was.
C14_IgnoredConflictNotifies ==
    [][PlanCall
        => \A p \in PlanSlots, f \in PlanFlags :
              (/\ f[3]
               /\ Cardinality(Intersecting(outcome'.id, p)) >= 3
               /\ ReachesCapacityCheck(outcome'.id, <<f[1], "reason", f[3]>>)
               /\ PlanStep(outcome'.id, p, f))
                => IF f[2] = None
                   THEN /\ outcome'.result # "OK"
                        /\ JOB_OPERATIONS_TABLE' = JOB_OPERATIONS_TABLE
                   ELSE /\ outcome'.result = "OK"
                        /\ JOB_OPERATIONS_TABLE'[outcome'.id].machine_id = p[1]
                        /\ JOB_OPERATIONS_TABLE'[outcome'.id].shift_id = p[2]
                        /\ JOB_OPERATIONS_TABLE'[outcome'.id].planned_start_date = p[3]
                        /\ JOB_OPERATIONS_TABLE'[outcome'.id].planned_end_date = p[4]
                        /\ Len(NOTIFICATIONS_TABLE') = Len(NOTIFICATIONS_TABLE) + 1
                        /\ NOTIFICATIONS_TABLE'[Len(NOTIFICATIONS_TABLE')].type = "CONFLICT"
                        /\ NOTIFICATIONS_TABLE'[Len(NOTIFICATIONS_TABLE')].user_id = None
                        /\ NOTIFICATIONS_TABLE'[Len(NOTIFICATIONS_TABLE')].entity_reference
                              = outcome'.id]_vars

\* The operations assigned to the machine and shift whose planned window
\* contains the date.
Occupying(machine_id, shift_id, date) ==
    {o \in DOMAIN JOB_OPERATIONS_TABLE :
        /\ JOB_OPERATIONS_TABLE[o].machine_id = machine_id
        /\ JOB_OPERATIONS_TABLE[o].shift_id = shift_id
        /\ JOB_OPERATIONS_TABLE[o].planned_start_date # NoneInt
        /\ JOB_OPERATIONS_TABLE[o].planned_start_date <= date
        /\ date <= JOB_OPERATIONS_TABLE[o].planned_end_date}

\* C15: when no plan call ignores conflicts, at most 3 operations assigned
\* to a machine and shift have a planned window containing a given date.
C15_CapacityCeiling ==
    \A machine_id \in DOMAIN MACHINES_TABLE, shift_id \in DOMAIN SHIFTS_TABLE,
       date \in 1..MaxDate :
        Cardinality(Occupying(machine_id, shift_id, date)) <= 3

\* C15 witness: a fourth operation has been refused a slot on a machine and
\* shift that 3 operations occupy on day 1.
C15_Witness ==
    /\ Raised("plan_job_operation_service", "Machine capacity overloaded")
    /\ Cardinality(Occupying("machine-1", "shift-A", 1)) = 3
    /\ outcome.id \notin Occupying("machine-1", "shift-A", 1)

PlanOf(job_op) ==
    <<job_op.machine_id, job_op.shift_id, job_op.planned_start_date,
      job_op.planned_end_date>>

\* C16: a plan call on a COMPLETED or CANCELLED operation raises the
\* closed-operation error whatever the slot and the flags are, and no step
\* changes the machine, shift or planned dates of an operation that is
\* COMPLETED or CANCELLED.
C16_ClosedOperationNotPlanned ==
    [][/\ PlanCall /\ JOB_OPERATIONS_TABLE[outcome'.id].status \in {"COMPLETED", "CANCELLED"}
            => \A p \in PlanSlots \cup InvalidPlanInputs, f \in PlanFlags :
                  PlanStep(outcome'.id, p, f)
                    => /\ outcome'.result =
                            "Cannot reschedule or plan an operation that is COMPLETED or CANCELLED"
                       /\ JOB_OPERATIONS_TABLE' = JOB_OPERATIONS_TABLE
                       /\ NOTIFICATIONS_TABLE' = NOTIFICATIONS_TABLE
       /\ \A id \in DOMAIN JOB_OPERATIONS_TABLE :
             JOB_OPERATIONS_TABLE[id].status \in {"COMPLETED", "CANCELLED"}
                => PlanOf(JOB_OPERATIONS_TABLE'[id]) = PlanOf(JOB_OPERATIONS_TABLE[id])]_vars

\* C16 witness: a plan call on a CANCELLED operation has been refused.
C16_Witness ==
    /\ Raised("plan_job_operation_service",
              "Cannot reschedule or plan an operation that is COMPLETED or CANCELLED")
    /\ JOB_OPERATIONS_TABLE[outcome.id].status = "CANCELLED"

ForceRequired ==
    {"Operation is active. Set force=true and provide reason.",
     "Reschedule reason is required for active operations."}

\* C17: a plan call on an IN_PROGRESS or PAUSED operation without force, or
\* without a reason, raises a force-required error, whatever machine, shift
\* and dates it names and however many operations its window intersects, and
\* changes no operation and no notification; a plan call on a NOT_STARTED or
\* READY operation never raises a force-required error and, for a valid slot
\* below the capacity ceiling, succeeds without force or reason.
C17_ActiveOperationNeedsForce ==
    [][PlanCall
        => LET id == outcome'.id
               status == JOB_OPERATIONS_TABLE[id].status
           IN /\ status \in {"IN_PROGRESS", "PAUSED"}
                    => \/ /\ outcome'.result \in ForceRequired
                          /\ JOB_OPERATIONS_TABLE' = JOB_OPERATIONS_TABLE
                          /\ NOTIFICATIONS_TABLE' = NOTIFICATIONS_TABLE
                       \/ \A p \in PlanSlots \cup InvalidPlanInputs,
                             f \in PlanFlags \cup {<<FALSE, "reason", FALSE>>} :
                             ~(f[1] /\ f[2] # None) => ~PlanStep(id, p, f)
              /\ (status \in {"IN_PROGRESS", "PAUSED"} /\ outcome'.result = "OK")
                    => \E p \in PlanSlots, f \in PlanFlags :
                          f[1] /\ f[2] # None /\ PlanStep(id, p, f)
              /\ status \in {"NOT_STARTED", "READY"}
                    => /\ outcome'.result \notin ForceRequired
                       /\ \A p \in PlanSlots :
                             Cardinality(Intersecting(id, p)) < 3
                               => \/ /\ outcome'.result = "OK"
                                     /\ PlanOf(JOB_OPERATIONS_TABLE'[id]) = p
                                  \/ ~PlanStep(id, p, <<FALSE, None, FALSE>>)]_vars

\* C17 witness: a plan call on a PAUSED operation, for a slot that 3 other
\* operations occupy, has been refused for want of force.
C17_Witness ==
    /\ Raised("plan_job_operation_service",
              "Operation is active. Set force=true and provide reason.")
    /\ JOB_OPERATIONS_TABLE[outcome.id].status = "PAUSED"
    /\ Cardinality(Occupying("machine-1", "shift-A", 1) \ {outcome.id}) = 3

\* quantity_completed is written by a completion and by nothing else, and
\* never cleared: it is set exactly on the operations that have been
\* COMPLETED at some moment.
HasBeenCompleted(id) ==
    JOB_OPERATIONS_TABLE[id].quantity_completed # NoneInt

Totals(job_op) ==
    <<job_op.total_produced, job_op.total_scrap, job_op.total_rework>>

\* C18: once an operation has been COMPLETED, no step changes its entry log
\* or its running totals.
C18_NoProductionAfterCompletion ==
    [][\A id \in DOMAIN JOB_OPERATIONS_TABLE :
          HasBeenCompleted(id)
            => /\ existing_entries(JOB_OPERATION_PRODUCTION_TABLE', id)
                    = existing_entries(JOB_OPERATION_PRODUCTION_TABLE, id)
               /\ Totals(JOB_OPERATIONS_TABLE'[id]) = Totals(JOB_OPERATIONS_TABLE[id])]_vars

\* The step is one of the calls update_job_operation_status,
\* plan_job_operation_service or add_production_entry_service on id, made
\* with tenant_id.
WriteCallBy(id, tenant_id) ==
    \/ \E new_status \in {"IN_PROGRESS", "PAUSED", "CANCELLED"} :
          update_job_operation_status(id, new_status, tenant_id, NoneInt, NoneInt,
                                      FALSE, None, TRUE)
    \/ update_job_operation_status(id, "COMPLETED", tenant_id, MaxQty, NoneInt,
                                   FALSE, None, TRUE)
    \/ \E p \in ValidPlanInputs :
          plan_job_operation_service(id, p[1], p[2], p[3], p[4], TRUE, "reason",
                                     FALSE, tenant_id)
    \/ add_production_entry_service(id, 1, 0, 0, tenant_id)

\* The step is a call that raised and wrote nothing.
RejectedWithoutTrace ==
    /\ outcome'.result # "OK"
    /\ outcome'.audit = <<>>
    /\ JOB_OPERATIONS_TABLE' = JOB_OPERATIONS_TABLE
    /\ JOBS_TABLE' = JOBS_TABLE
    /\ JOB_OPERATION_PRODUCTION_TABLE' = JOB_OPERATION_PRODUCTION_TABLE
    /\ NOTIFICATIONS_TABLE' = NOTIFICATIONS_TABLE

\* The step is a call on a stored operation.
WriteCall ==
    /\ outcome = Idle
    /\ outcome'.call \in {"update_job_operation_status", "plan_job_operation_service",
                          "add_production_entry_service"}
    /\ outcome'.id \in DOMAIN JOB_OPERATIONS_TABLE

\* C19: a status update, plan or production entry called with a tenant that
\* is not the operation's raises and changes no operation, job, production
\* entry or notification and appends no audit record; a plan call by the
\* operation's own tenant raises, and changes nothing, when the machine or
\* the shift is of another tenant.
C19_TenantIsolationOfWrites ==
    [][WriteCall
        => LET id == outcome'.id
               owner == JOB_OPERATIONS_TABLE[id].tenant_id
           IN /\ \/ RejectedWithoutTrace
                 \/ \A tenant_id \in TenantIds \ {owner} : ~WriteCallBy(id, tenant_id)
              /\ \A p \in ValidPlanInputs :
                    (MACHINES_TABLE[p[1]].tenant_id # owner
                        \/ SHIFTS_TABLE[p[2]].tenant_id # owner)
                      => \/ RejectedWithoutTrace
                         \/ ~plan_job_operation_service(id, p[1], p[2], p[3], p[4], TRUE,
                                                        "reason", FALSE, owner)]_vars

\* C19 witness: a production entry by another tenant has been refused on an
\* operation that holds entries.
C19_Witness ==
    /\ Raised("add_production_entry_service", "Unauthorized access to job operation")
    /\ existing_entries(JOB_OPERATION_PRODUCTION_TABLE, outcome.id) # <<>>

\* C20: a call on an operation that is stored for another tenant raises what
\* the same call raises when no operation has that id, "Job operation not
\* found".
C20_NoExistenceLeak ==
    [][/\ (outcome = Idle /\ outcome'.id \in TenantTargets \ DOMAIN JOB_OPERATIONS_TABLE)
            => outcome'.result = "Job operation not found"
       /\ WriteCall
            => \/ outcome'.result = "Job operation not found"
               \/ \A tenant_id \in TenantIds \ {JOB_OPERATIONS_TABLE[outcome'.id].tenant_id} :
                     ~WriteCallBy(outcome'.id, tenant_id)]_vars

\* No call is in progress in any thread.
Quiescent == \A t \in Threads : threads[t].pc \in {"waiting", "returned"}

\* C21: with two threads recording production on one operation, the entries
\* in the operation's log never add up to more than the job's quantity, and
\* when no call is in progress the operation's running totals are the sums
\* over its log.
C21_ConcurrentProductionSerializable ==
    \A id \in DOMAIN JOB_OPERATION_PRODUCTION_TABLE :
        /\ EntriesTotal(JOB_OPERATION_PRODUCTION_TABLE[id])
              <= JOBS_TABLE[JOB_OPERATIONS_TABLE[id].job_id].quantity
        /\ Quiescent
              => Totals(JOB_OPERATIONS_TABLE[id])
                    = <<SumProduced(JOB_OPERATION_PRODUCTION_TABLE[id]),
                        SumScrap(JOB_OPERATION_PRODUCTION_TABLE[id]),
                        SumRework(JOB_OPERATION_PRODUCTION_TABLE[id])>>

\* C22: with two threads planning without ignore_conflicts, no machine and
\* shift has more than MAX_OPS_PER_SHIFT operations whose planned windows
\* contain the same date.
C22_PlanningRaceFree ==
    \A p \in ThreadPlanSlots, date \in 1..MaxDate :
        Cardinality(Occupying(p[1], p[2], date)) <= MAX_OPS_PER_SHIFT

\* The calls of update_job_operation_status on id that have returned
\* normally and whose audit record is the transition from before to after.
Transitioned(id, before, after) ==
    {t \in Threads :
        /\ threads[t].call = "update_job_operation_status"
        /\ threads[t].id = id
        /\ threads[t].pc = "returned"
        /\ threads[t].result = "OK"
        /\ threads[t].audit[1].action = "STATUS_CHANGED"
        /\ threads[t].audit[1].before.status = before
        /\ threads[t].audit[1].after.status = after}

\* C23: the first operation of a job is READY once only, so of the calls
\* that start it from READY, whether one after the other or at the same
\* time, at most one succeeds and at most one writes the STATUS_CHANGED
\* record of READY to IN_PROGRESS.
C23_SameTransitionOnce ==
    Cardinality(Transitioned(JobOperationId("job-1", "op-cut"), "READY", "IN_PROGRESS")) <= 1

\* The step is a call of one of the read projections.
ReadStep == outcome'.call \in ReadCalls /\ outcome' # outcome

\* The step is a call of get_jobs_by_stage_service made while the response
\* of an earlier call of it, with the same arguments, is the last report:
\* no write was made between the two.
SecondRead ==
    /\ outcome.call = "get_jobs_by_stage_service"
    /\ outcome'.call = "get_jobs_by_stage_service"
    /\ outcome'.id = outcome.id

Seq1 == JobOperationId("job-1", "op-cut")

Seq2 == JobOperationId("job-1", "op-drill")

\* The step is the call the scenario makes on its first operation, made at
\* the scenario's moment: the operation is READY, or planned and READY, or
\* IN_PROGRESS with nothing recorded, or IN_PROGRESS with the whole
\* quantity to report.
ScenarioCall ==
    /\ outcome = Idle
    /\ outcome'.id = Seq1
    /\ Seq1 \in DOMAIN JOB_OPERATIONS_TABLE
    /\ \/ /\ outcome'.call = "plan_job_operation_service"
          /\ JOB_OPERATIONS_TABLE[Seq1].status = OP_STATUS_READY
       \/ /\ outcome'.call = "update_job_operation_status"
          /\ JOB_OPERATIONS_TABLE[Seq1].status = OP_STATUS_READY
          /\ JOB_OPERATIONS_TABLE[Seq1].machine_id # None
          /\ update_job_operation_status(Seq1, OP_STATUS_IN_PROGRESS, "tenant-1", NoneInt,
                                         NoneInt, FALSE, None, FALSE)
       \/ /\ outcome'.call = "add_production_entry_service"
          /\ JOB_OPERATIONS_TABLE[Seq1].status = OP_STATUS_IN_PROGRESS
          /\ Seq1 \notin DOMAIN JOB_OPERATION_PRODUCTION_TABLE
          /\ add_production_entry_service(Seq1, MaxQty, 0, 0, "tenant-1")
       \/ /\ outcome'.call = "update_job_operation_status"
          /\ JOB_OPERATIONS_TABLE[Seq1].status = OP_STATUS_IN_PROGRESS
          /\ update_job_operation_status(Seq1, OP_STATUS_COMPLETED, "tenant-1", MaxQty,
                                         NoneInt, FALSE, None, FALSE)

\* C25: creating the job of quantity MaxQty on the part with the two-step
\* route yields the first operation READY and the second NOT_STARTED;
\* planning the first operation, starting it, recording the whole quantity
\* and completing it with the whole quantity each succeed; after the
\* completion the unplanned second operation is NOT_STARTED and needs
\* planning; the job is NOT_STARTED as long as the second operation is not
\* COMPLETED.
C25_EndToEndScenario ==
    [][/\ (outcome'.call = "create_job" /\ outcome = Idle) =>
             /\ outcome'.result = OK
             /\ JOB_OPERATIONS_TABLE'[Seq1].status = OP_STATUS_READY
             /\ JOB_OPERATIONS_TABLE'[Seq1].sequence_number = 1
             /\ JOB_OPERATIONS_TABLE'[Seq2].status = OP_STATUS_NOT_STARTED
             /\ JOB_OPERATIONS_TABLE'[Seq2].sequence_number = 2
       /\ ScenarioCall => outcome'.result = OK
       /\ (/\ ScenarioCall
           /\ JOB_OPERATIONS_TABLE'[Seq1].status = OP_STATUS_COMPLETED
           /\ JOB_OPERATIONS_TABLE[Seq2].machine_id = None) =>
             /\ JOB_OPERATIONS_TABLE'[Seq2].status = OP_STATUS_NOT_STARTED
             /\ JOB_OPERATIONS_TABLE'[Seq2].needs_planning
       /\ (/\ "job-1" \in DOMAIN ROUTES_JOBS_TABLE'
           /\ JOB_OPERATIONS_TABLE'[Seq2].status # OP_STATUS_COMPLETED) =>
             ROUTES_JOBS_TABLE'["job-1"].status = "NOT_STARTED"]_vars

\* C26: job creation is atomic with its operations: when route generation
\* fails the header just stored is removed, so every job in the job table
\* has operations and every operation belongs to a job in the job table.
C26_JobCreatedWithItsOperations ==
    /\ \A job_id \in DOMAIN ROUTES_JOBS_TABLE :
          \E id \in DOMAIN JOB_OPERATIONS_TABLE :
              JOB_OPERATIONS_TABLE[id].job_id = job_id
    /\ \A id \in DOMAIN JOB_OPERATIONS_TABLE :
          JOB_OPERATIONS_TABLE[id].job_id \in DOMAIN ROUTES_JOBS_TABLE
    /\ outcome.call = "create_job" =>
          (outcome.result = OK <=> outcome.id[1] \in DOMAIN ROUTES_JOBS_TABLE)

\* C26 witness: a job creation has failed in route generation while an
\* earlier job is stored with its operations.
C26_Witness ==
    /\ outcome.call = "create_job"
    /\ outcome.result \in {ERR_INTERRUPTED, ERR_NO_ROUTE, ERR_ROUTE_OPERATION}
    /\ ROUTES_JOBS_TABLE # EmptyDict
    /\ outcome.id[1] \notin DOMAIN ROUTES_JOBS_TABLE

\* The messages of the completion checks.
CompletionErrors ==
    {"quantity_completed is required when completing an operation",
     "quantity_completed cannot be negative", "quantity_rejected cannot be negative",
     "Parent job not found", "quantity_completed exceeds total job quantity",
     "Total produced + rejected exceeds job quantity",
     "rework_note is required when rework_flag is true"}

\* C27: update_job_operation_status reports the error of the earliest rule
\* the call breaks, in the order operation missing, wrong tenant, transition
\* not allowed, planning required, sequence violation, completion checks:
\* a call that breaks an earlier rule gets that rule's error whatever later
\* rules it breaks too.
C27_EarliestRuleReported ==
    [][(outcome = Idle /\ outcome'.call = "update_job_operation_status")
        => LET id == outcome'.id
           IN /\ id \notin DOMAIN JOB_OPERATIONS_TABLE
                    => outcome'.result = "Job operation not found"
              /\ id \in DOMAIN JOB_OPERATIONS_TABLE
                    => LET job_op == JOB_OPERATIONS_TABLE[id]
                           unplanned == job_op.machine_id = None /\ job_op.status # "PAUSED"
                           out_of_sequence == job_op.sequence_number > 1
                                                 /\ PreviousNotCompleted(id)
                           earliest(new_status, override_sequence) ==
                               IF <<job_op.status, new_status>> \notin ClaimedTransitions
                               THEN {"Invalid status transition"}
                               ELSE IF new_status = "IN_PROGRESS" /\ unplanned
                               THEN {"Cannot start operation: Machine not assigned (Planning required)"}
                               ELSE IF new_status = "IN_PROGRESS" /\ ~override_sequence
                                          /\ out_of_sequence
                               THEN {"Previous operation must be COMPLETED first"}
                               ELSE IF new_status = "COMPLETED"
                               THEN CompletionErrors \cup {"OK"}
                               ELSE {"OK"}
                       IN /\ \/ outcome'.result = "Unauthorized access to job operation"
                             \/ ~update_job_operation_status(id, "IN_PROGRESS", "tenant-2",
                                                             NoneInt, NoneInt, FALSE, None,
                                                             TRUE)
                          /\ \A new_status \in StatusInputs, override_sequence \in BOOLEAN :
                                \/ outcome'.result \in earliest(new_status, override_sequence)
                                \/ ~UpdateStep(id, new_status, override_sequence)]_vars

\* C27 witness: the start of a NOT_STARTED operation with sequence number
\* above 1, without a machine and with its predecessor not COMPLETED, has
\* been rejected because planning is required.
C27_Witness ==
    /\ Raised("update_job_operation_status",
              "Cannot start operation: Machine not assigned (Planning required)")
    /\ JOB_OPERATIONS_TABLE[outcome.id].status = "NOT_STARTED"
    /\ JOB_OPERATIONS_TABLE[outcome.id].sequence_number > 1
    /\ JOB_OPERATIONS_TABLE[outcome.id].machine_id = None
    /\ PreviousNotCompleted(outcome.id)

\* The completion arguments c = <<quantity_completed, quantity_rejected,
\* rework_flag, rework_note>> keep the quantity rules for a job of the given
\* quantity.
WithinJobQuantity(c, quantity) ==
    /\ c[1] # NoneInt
    /\ c[1] >= 0
    /\ (c[2] = NoneInt \/ c[2] >= 0)
    /\ c[1] <= quantity
    /\ c[1] + (IF c[2] = NoneInt THEN 0 ELSE c[2]) <= quantity

\* C28: a completion succeeds only with quantity_completed given and not
\* negative, quantity_rejected (0 when not given) not negative, and
\* quantity_completed and quantity_completed + quantity_rejected within the
\* job's quantity; so every COMPLETED operation has quantity_completed and
\* quantity_rejected not negative and their sum within its job's quantity.
C28_CompletionQuantityBound ==
    [][/\ (outcome = Idle /\ outcome'.call = "update_job_operation_status"
              /\ outcome'.result = "OK"
              /\ JOB_OPERATIONS_TABLE'[outcome'.id].status = "COMPLETED")
          => LET id == outcome'.id
                 job_id == JOB_OPERATIONS_TABLE[id].job_id
             IN /\ job_id \in DOMAIN JOBS_TABLE
                /\ \A c \in CompletionInputs, override_sequence \in BOOLEAN :
                      \/ WithinJobQuantity(c, JOBS_TABLE[job_id].quantity)
                      \/ ~update_job_operation_status(id, "COMPLETED", "tenant-1", c[1],
                                                      c[2], c[3], c[4], override_sequence)
       /\ \A id \in DOMAIN JOB_OPERATIONS_TABLE' :
             JOB_OPERATIONS_TABLE'[id].status = "COMPLETED"
               => LET job_op == JOB_OPERATIONS_TABLE'[id]
                  IN /\ job_op.job_id \in DOMAIN JOBS_TABLE'
                     /\ job_op.quantity_completed # NoneInt
                     /\ job_op.quantity_rejected # NoneInt
                     /\ 0 <= job_op.quantity_completed
                     /\ 0 <= job_op.quantity_rejected
                     /\ job_op.quantity_completed + job_op.quantity_rejected
                           <= JOBS_TABLE'[job_op.job_id].quantity]_vars

\* C28 witness: a completion whose completed and rejected quantities
\* together exceed the job's quantity has been rejected on an operation in
\* progress, while another operation of the job is COMPLETED with its
\* quantities.
C28_Witness ==
    /\ Raised("update_job_operation_status",
              "Total produced + rejected exceeds job quantity")
    /\ JOB_OPERATIONS_TABLE[outcome.id].status = "IN_PROGRESS"
    /\ \E id \in DOMAIN JOB_OPERATIONS_TABLE :
          /\ JOB_OPERATIONS_TABLE[id].status = "COMPLETED"
          /\ JOB_OPERATIONS_TABLE[id].quantity_completed
                = JOBS_TABLE[JOB_OPERATIONS_TABLE[id].job_id].quantity

\* C29: an update_job_operation_status or plan_job_operation_service call
\* that raises, the capacity conflict included, leaves the operations, the
\* jobs and the notifications as they were and writes no audit record.
C29_RejectedCallChangesNothing ==
    [][(outcome = Idle
            /\ outcome'.call \in {"update_job_operation_status", "plan_job_operation_service"}
            /\ outcome'.result # "OK")
        => /\ JOB_OPERATIONS_TABLE' = JOB_OPERATIONS_TABLE
           /\ JOBS_TABLE' = JOBS_TABLE
           /\ ROUTES_JOBS_TABLE' = ROUTES_JOBS_TABLE
           /\ NOTIFICATIONS_TABLE' = NOTIFICATIONS_TABLE
           /\ outcome'.audit = <<>>]_vars

\* C30: a successful plan_job_operation_service changes nothing but the
\* machine, shift, planned start, planned end and updated_at of its target:
\* the target's other fields, its status and needs_planning flag included,
\* every other operation and every job stay as they were.
C30_PlanChangesOnlyThePlan ==
    [][(outcome = Idle /\ outcome'.call = "plan_job_operation_service"
            /\ outcome'.result = "OK")
        => LET id == outcome'.id
           IN /\ DOMAIN JOB_OPERATIONS_TABLE' = DOMAIN JOB_OPERATIONS_TABLE
              /\ JOB_OPERATIONS_TABLE' =
                    [JOB_OPERATIONS_TABLE EXCEPT ![id] =
                        [@ EXCEPT !.machine_id = JOB_OPERATIONS_TABLE'[id].machine_id,
                                  !.shift_id = JOB_OPERATIONS_TABLE'[id].shift_id,
                                  !.planned_start_date =
                                      JOB_OPERATIONS_TABLE'[id].planned_start_date,
                                  !.planned_end_date =
                                      JOB_OPERATIONS_TABLE'[id].planned_end_date,
                                  !.updated_at = JOB_OPERATIONS_TABLE'[id].updated_at]]
              /\ JOB_OPERATIONS_TABLE'[id].status = JOB_OPERATIONS_TABLE[id].status
              /\ JOB_OPERATIONS_TABLE'[id].needs_planning
                    = JOB_OPERATIONS_TABLE[id].needs_planning
              /\ JOBS_TABLE' = JOBS_TABLE
              /\ ROUTES_JOBS_TABLE' = ROUTES_JOBS_TABLE]_vars

\* C30 witness: a NOT_STARTED operation that needs planning, whose
\* predecessor is COMPLETED, has been planned and is still NOT_STARTED with
\* the flag set.
C30_Witness ==
    /\ Succeeded("plan_job_operation_service")
    /\ JOB_OPERATIONS_TABLE[outcome.id].status = "NOT_STARTED"
    /\ JOB_OPERATIONS_TABLE[outcome.id].needs_planning
    /\ JOB_OPERATIONS_TABLE[outcome.id].machine_id # None
    /\ JOB_OPERATIONS_TABLE[outcome.id].sequence_number > 1
    /\ ~PreviousNotCompleted(outcome.id)

\* C31: a successful plan_job_operation_service writes exactly one audit
\* record; its action is OP_PLANNED exactly when the operation had no plan
\* before the call, which is exactly when its status before the call was
\* NOT_STARTED, and OP_RESCHEDULED otherwise.
C31_FirstPlanningIsOpPlanned ==
    [][(outcome = Idle /\ outcome'.call = "plan_job_operation_service"
            /\ outcome'.result = "OK")
        => LET job_op == JOB_OPERATIONS_TABLE[outcome'.id]
               first_time == job_op.machine_id = None
           IN /\ Len(outcome'.audit) = 1
              /\ outcome'.audit[1].entity_id = outcome'.id
              /\ outcome'.audit[1].action
                    = IF first_time THEN "OP_PLANNED" ELSE "OP_RESCHEDULED"
              /\ first_time <=> job_op.status = "NOT_STARTED"]_vars

\* C32: the production log is append-only and the totals are exact: a
\* successful add_production_entry_service appends one entry after the
\* earlier ones, which stay as they were, and returns the earlier count plus
\* one; no other step changes a log; and every operation that has a log has
\* total_produced, total_scrap and total_rework equal to the sums over it,
\* while an operation without a log has no totals.
C32_AppendOnlyLogExactTotals ==
    [][/\ \A id \in DOMAIN JOB_OPERATION_PRODUCTION_TABLE :
             /\ id \in DOMAIN JOB_OPERATION_PRODUCTION_TABLE'
             /\ LET before == JOB_OPERATION_PRODUCTION_TABLE[id]
                    after == JOB_OPERATION_PRODUCTION_TABLE'[id]
                IN /\ Len(after) >= Len(before)
                   /\ SubSeq(after, 1, Len(before)) = before
       /\ (outcome = Idle /\ outcome'.call = "add_production_entry_service"
              /\ outcome'.result = "OK")
             => LET id == outcome'.id
                    before == IF id \in DOMAIN JOB_OPERATION_PRODUCTION_TABLE
                              THEN JOB_OPERATION_PRODUCTION_TABLE[id] ELSE <<>>
                IN /\ Len(JOB_OPERATION_PRODUCTION_TABLE'[id]) = Len(before) + 1
                   /\ outcome'.returned.entries_count = Len(before) + 1
                   /\ \A o \in DOMAIN JOB_OPERATION_PRODUCTION_TABLE' \ {id} :
                         /\ o \in DOMAIN JOB_OPERATION_PRODUCTION_TABLE
                         /\ JOB_OPERATION_PRODUCTION_TABLE'[o]
                               = JOB_OPERATION_PRODUCTION_TABLE[o]
       /\ ~(outcome = Idle /\ outcome'.call = "add_production_entry_service"
               /\ outcome'.result = "OK")
             => JOB_OPERATION_PRODUCTION_TABLE' = JOB_OPERATION_PRODUCTION_TABLE
       /\ \A id \in DOMAIN JOB_OPERATIONS_TABLE' :
             IF id \in DOMAIN JOB_OPERATION_PRODUCTION_TABLE'
             THEN LET entries == JOB_OPERATION_PRODUCTION_TABLE'[id]
                  IN Totals(JOB_OPERATIONS_TABLE'[id])
                        = <<SumProduced(entries), SumScrap(entries), SumRework(entries)>>
             ELSE Totals(JOB_OPERATIONS_TABLE'[id]) = <<NoneInt, NoneInt, NoneInt>>]_vars

\* C32 witness: a second entry has been appended to a log and the response
\* counts two entries.
C32_Witness ==
    /\ Succeeded("add_production_entry_service")
    /\ outcome.returned.entries_count = 2
    /\ Len(JOB_OPERATION_PRODUCTION_TABLE[outcome.id]) = 2
    /\ JOB_OPERATIONS_TABLE[outcome.id].total_produced
          + JOB_OPERATIONS_TABLE[outcome.id].total_scrap
          + JOB_OPERATIONS_TABLE[outcome.id].total_rework >= 2

C34_StartTimeSetOnce ==
    [][\A id \in DOMAIN JOB_OPERATIONS_TABLE :
          JOB_OPERATIONS_TABLE[id].actual_start_time # NoneInt
            => JOB_OPERATIONS_TABLE'[id].actual_start_time
                  = JOB_OPERATIONS_TABLE[id].actual_start_time]_vars

\* C35: no step takes the machine from an operation that has one, and in
\* every state every operation that is IN_PROGRESS, PAUSED or COMPLETED has
\* a machine.
C35_RunningOperationHasMachine ==
    [][\A id \in DOMAIN JOB_OPERATIONS_TABLE' :
          /\ (id \in DOMAIN JOB_OPERATIONS_TABLE
                /\ JOB_OPERATIONS_TABLE[id].machine_id # None)
               => JOB_OPERATIONS_TABLE'[id].machine_id # None
          /\ JOB_OPERATIONS_TABLE'[id].status \in {"IN_PROGRESS", "PAUSED", "COMPLETED"}
               => JOB_OPERATIONS_TABLE'[id].machine_id \in DOMAIN MACHINES_TABLE]_vars

\* C35 witness: a PAUSED operation has been resumed, and it has a machine.
C35_Witness ==
    /\ Succeeded("update_job_operation_status")
    /\ Len(outcome.audit) = 1
    /\ outcome.audit[1].before.status = "PAUSED"
    /\ JOB_OPERATIONS_TABLE[outcome.id].status = "IN_PROGRESS"
    /\ JOB_OPERATIONS_TABLE[outcome.id].machine_id # None

\* An operation that has been started: IN_PROGRESS, PAUSED or COMPLETED.
Started(id) ==
    JOB_OPERATIONS_TABLE[id].status \in {"IN_PROGRESS", "PAUSED", "COMPLETED"}

\* C36: when override_sequence is never passed, every operation that is
\* IN_PROGRESS, PAUSED or COMPLETED has all the operations of its job with a
\* lower sequence number COMPLETED, and at most one operation of a job is
\* IN_PROGRESS or PAUSED.
C36_InSequenceWithoutOverride ==
    /\ \A id \in DOMAIN JOB_OPERATIONS_TABLE :
          Started(id)
            => \A p \in OperationsOf(JOB_OPERATIONS_TABLE[id].job_id) :
                  JOB_OPERATIONS_TABLE[p].sequence_number
                        < JOB_OPERATIONS_TABLE[id].sequence_number
                    => JOB_OPERATIONS_TABLE[p].status = "COMPLETED"
    /\ \A a, b \in DOMAIN JOB_OPERATIONS_TABLE :
          (/\ JOB_OPERATIONS_TABLE[a].job_id = JOB_OPERATIONS_TABLE[b].job_id
           /\ JOB_OPERATIONS_TABLE[a].status \in {"IN_PROGRESS", "PAUSED"}
           /\ JOB_OPERATIONS_TABLE[b].status \in {"IN_PROGRESS", "PAUSED"})
            => a = b

\* C36 witness: the second operation has been paused after the first was
\* completed, and a start of the third has been rejected for sequencing.
C36_Witness ==
    /\ Raised("update_job_operation_status", "Previous operation must be COMPLETED first")
    /\ JOB_OPERATIONS_TABLE[outcome.id].sequence_number = 3
    /\ \E id \in DOMAIN JOB_OPERATIONS_TABLE :
          /\ JOB_OPERATIONS_TABLE[id].sequence_number = 2
          /\ JOB_OPERATIONS_TABLE[id].status = "PAUSED"

\* C37: a completion of the operation with sequence number N leaves the
\* status of the operation with sequence number N + 1 as it was when that
\* operation is IN_PROGRESS or PAUSED.
C37_AutoAdvanceOnlyWhenWaiting ==
    [][(outcome = Idle /\ outcome'.call = "update_job_operation_status"
            /\ outcome'.result = "OK"
            /\ JOB_OPERATIONS_TABLE'[outcome'.id].status = "COMPLETED")
        => \A n \in Following(outcome'.id) :
              JOB_OPERATIONS_TABLE[n].status \in {"IN_PROGRESS", "PAUSED"}
                => JOB_OPERATIONS_TABLE'[n].status = JOB_OPERATIONS_TABLE[n].status]_vars

\* C38: every operation created through job creation has its parent job in
\* the job table that update_job_operation_status and
\* add_production_entry_service read, and no call of theirs raises
\* "Parent job not found".
C38_ParentJobInTheTableRead ==
    /\ \A id \in DOMAIN JOB_OPERATIONS_TABLE :
          JOB_OPERATIONS_TABLE[id].job_id \in DOMAIN ROUTES_JOBS_TABLE
            => JOB_OPERATIONS_TABLE[id].job_id \in DOMAIN JOBS_TABLE
    /\ outcome.result # "Parent job not found"

\* C39: once a job is COMPLETED, every update_job_operation_status,
\* plan_job_operation_service and add_production_entry_service call on one
\* of its operations raises, and the job's status, its operations (status,
\* plan and totals) and their entry logs stay as they are.
C39_CompletedJobIsAbsorbing ==
    [][\A j \in DOMAIN JOBS_TABLE :
          JOBS_TABLE[j].status = "COMPLETED"
            => /\ j \in DOMAIN JOBS_TABLE'
               /\ JOBS_TABLE'[j].status = "COMPLETED"
               /\ \A id \in OperationsOf(j) :
                     /\ id \in DOMAIN JOB_OPERATIONS_TABLE'
                     /\ JOB_OPERATIONS_TABLE'[id] = JOB_OPERATIONS_TABLE[id]
                     /\ existing_entries(JOB_OPERATION_PRODUCTION_TABLE', id)
                           = existing_entries(JOB_OPERATION_PRODUCTION_TABLE, id)
               /\ (/\ outcome = Idle
                   /\ outcome'.call \in {"update_job_operation_status",
                                         "plan_job_operation_service",
                                         "add_production_entry_service"}
                   /\ outcome'.id \in OperationsOf(j))
                     => outcome'.result # "OK"]_vars

\* C39 witness: a production entry on an operation of a COMPLETED job, whose
\* quantity the job's quantity would admit, has been refused.
C39_Witness ==
    /\ Raised("add_production_entry_service",
              "Cannot record production. Operation already COMPLETED")
    /\ JOBS_TABLE[JOB_OPERATIONS_TABLE[outcome.id].job_id].status = "COMPLETED"
    /\ outcome.id \notin DOMAIN JOB_OPERATION_PRODUCTION_TABLE

\* C40: when the operations of a job whose record is in the job table are,
\* in sequence order and without override_sequence, planned on an existing
\* machine and shift, started and completed with quantities within the
\* job's quantity, every one of these calls succeeds and the job eventually
\* is COMPLETED.
C40_WorkflowCompletesTheJob ==
    /\ [][outcome' # Idle => outcome'.result = "OK"]_vars
    /\ <>(JOBS_TABLE["job-1"].status = "COMPLETED")

\* C40 witness: the last operation of a route of three has been completed
\* with a rejected quantity, and the job is COMPLETED.
C40_Witness ==
    /\ Succeeded("update_job_operation_status")
    /\ JOB_OPERATIONS_TABLE[outcome.id].sequence_number = 3
    /\ JOB_OPERATIONS_TABLE[outcome.id].status = "COMPLETED"
    /\ JOB_OPERATIONS_TABLE[outcome.id].quantity_rejected > 0
    /\ JOBS_TABLE["job-1"].status = "COMPLETED"
    /\ \A id \in DOMAIN JOB_OPERATIONS_TABLE : JOB_OPERATIONS_TABLE[id].status = "COMPLETED"

====
